---- MODULE Spec2Model ----
(***************************************************************************)
(* A model of spotify.py: the request descriptor (BaseRequest.prepare),    *)
(* the credential operations of SpotifyAPI (_refresh_access_token,         *)
(* register_code, oauth2_url), the authenticated dispatcher (_api_req)     *)
(* and the lazily resolved user id (user_required).                        *)
(*                                                                         *)
(* Python values are modelled as follows.                                  *)
(*   None                    the string "None"                             *)
(*   dict                    a sequence of <<key, value>> pairs with       *)
(*                           unique keys, in insertion order               *)
(*   a URL                   [path, q]: q is the sequence of the pieces    *)
(*                           that follow each "?" of the URL, each piece a *)
(*                           sequence of raw <<key, value>> pairs          *)
(*   a header value          a tuple of strings (<<"Bearer", token>>)      *)
(* The server is the environment: every answer it gives is an input of the *)
(* action that models the handler receiving it.                            *)
(***************************************************************************)
EXTENDS Integers, Sequences, FiniteSets, TLC

VARIABLES
    client,     \* the SpotifyAPI object: credentials, tokens, user_id
    issued,     \* number of token grants the token endpoint has answered
    retired,    \* the access tokens the client has replaced so far
    last,       \* what the last client operation did (its sends, its outcome)
    desc,       \* a BaseRequest descriptor (SpecPrepare)
    prepared,   \* what the last prepare() on desc did (SpecPrepare)
    gen,        \* a generator returned by an endpoint method (SpecSeq)
    other,      \* a second generator of the same client (SpecTwo)
    server      \* the pages the resource API serves (SpecSeq)

vars == <<client, issued, retired, last, desc, prepared, gen, other, server>>

\* ------------------------------------------------------------------ bounds
MaxIssued == 2

\* --------------------------------------------------------------- constants
None == "None"

API_BASE == "https://api.spotify.com/v1/"

TOKEN_URL == "https://accounts.spotify.com/api/token/"

OAUTH2_URL == "https://accounts.spotify.com/authorize/"

VALID_SCOPES ==
    { "ugc-image-upload", "user-read-recently-played", "user-top-read",
      "user-read-playback-position", "user-read-playback-state",
      "user-modify-playback-state", "user-read-currently-playing",
      "app-remote-control", "streaming", "playlist-modify-public",
      "playlist-modify-private", "playlist-read-private",
      "playlist-read-collaborative", "user-follow-modify", "user-follow-read",
      "user-library-modify", "user-library-read", "user-read-email",
      "user-read-private" }

\* resource paths the model uses, and the URLs that already contain API_BASE
Resources == {"me", "me/albums", "users/u1/playlists", "users/u2/playlists"}

AbsolutePaths == { API_BASE \o r : r \in Resources }

\* the element of a set of one element: Only({ e(x) : x \in {v} }) is e(v)
\* with v evaluated once
Only(S) == CHOOSE x \in S : TRUE

\* ------------------------------------------------------------ python dicts
Keys(d) == { d[i][1] : i \in DOMAIN d }

DictGet(d, k) == d[CHOOSE i \in DOMAIN d : d[i][1] = k][2]

\* d[k] = v: an existing key keeps its position, a new key goes last
DictSet(d, k, v) ==
    IF k \in Keys(d)
    THEN [i \in DOMAIN d |-> IF d[i][1] = k THEN <<k, v>> ELSE d[i]]
    ELSE Append(d, <<k, v>>)

\* d.update(e)
RECURSIVE DictUpdate(_, _)
DictUpdate(d, e) ==
    IF e = <<>> THEN d
    ELSE DictUpdate(DictSet(d, Head(e)[1], Head(e)[2]), Tail(e))

\* ------------------------------------------------------------ identifiers
\* bound: the longest list of identifiers joined into one query parameter
MaxIds == 51

\* identifiers (album ids, user ids, track URIs): strings that hold no
\* character quote_plus changes
Id(i) == "i" \o ToString(i)

Ids(n) == [i \in 1..n |-> Id(i)]

\* sep.join(xs)
RECURSIVE JoinWith(_, _)
JoinWith(xs, sep) ==
    IF xs = <<>> THEN ""
    ELSE IF Len(xs) = 1 THEN xs[1]
    ELSE xs[1] \o sep \o JoinWith(Tail(xs), sep)

\* the lists of identifiers that occur joined by "," in a query parameter:
\* the runs of consecutive elements of Ids(MaxIds)
IdRuns ==
    { SubSeq(Ids(MaxIds), a, b) : a \in 1..MaxIds, b \in 1..MaxIds } \ { <<>> }

\* for every run: its elements, the string ",".join makes of them and the
\* string quote_plus makes of that ("," encodes to "%2C")
JoinedRuns ==
    { [ids |-> c, joined |-> JoinWith(c, ","), quoted |-> JoinWith(c, "%2C")] :
      c \in IdRuns }

JoinedStrings == { r.joined : r \in JoinedRuns }

QuotedStrings == { r.quoted : r \in JoinedRuns }

\* quote_plus on the joined strings, and the server's reading of a quoted
\* string: split at the encoded commas
QuotedOf == [s \in JoinedStrings |-> (CHOOSE r \in JoinedRuns : r.joined = s).quoted]

IdsOf == [s \in QuotedStrings |-> (CHOOSE r \in JoinedRuns : r.quoted = s).ids]

\* ------------------------------------------------------------ urllib.parse
\* percent-decoding of a raw query value ("+" and "%20" both decode to " ")
Unquote(raw) ==
    IF raw \in {"x%20y", "x+y"} THEN "x y" ELSE raw

\* quote_plus of a value (" " encodes to "+")
QuotePlus(v) ==
    IF v = "x y" THEN "x+y"
    ELSE IF v = "https://app/cb" THEN "https%3A%2F%2Fapp%2Fcb"
    ELSE IF v \in JoinedStrings THEN QuotedOf[v]
    ELSE v

\* parse_qs with its defaults: a pair with a blank value is dropped, the
\* values of a repeated key are collected in order of appearance
RECURSIVE ParseQsFrom(_, _)
ParseQsFrom(qs, acc) ==
    IF qs = <<>> THEN acc
    ELSE LET k == Head(qs)[1]
             raw == Head(qs)[2]
         IN  ParseQsFrom(Tail(qs),
                 IF raw = "" THEN acc
                 ELSE IF k \in Keys(acc)
                      THEN DictSet(acc, k, Append(DictGet(acc, k), Unquote(raw)))
                      ELSE Append(acc, <<k, <<Unquote(raw)>> >>))

parse_qs(qs) == ParseQsFrom(qs, <<>>)

urlencode(d) == [i \in DOMAIN d |-> <<d[i][1], QuotePlus(d[i][2])>>]

\* url.split("?")
SplitQuestion(url) == <<url.path>> \o url.q

\* --------------------------------------------------------- MethodRequest
\* str.capitalize() as urllib.request.Request.add_header applies it to a key
Capitalize(k) ==
    IF k = "Content-Type" THEN "Content-type" ELSE k

\* Request.__init__ copies the headers it is given, key by key
MethodRequest(method, url, data, headers) ==
    [ method  |-> method,
      url     |-> url,
      data    |-> data,
      headers |-> [i \in DOMAIN headers |->
                      <<Capitalize(headers[i][1]), headers[i][2]>>] ]

NoData == <<"none">>

\* --------------------------------------------------------- BaseRequest
BaseRequest(method, url, params, data, json, headers, auth) ==
    [ method  |-> method,
      url     |-> url,
      params  |-> params,
      json    |-> json,
      data    |-> data,
      headers |-> headers,
      auth    |-> auth ]

\* a variant that takes nothing from the query string of the URL
FirstValuesDropped(current) == <<>>

\* {k: v[0] for k, v in current_params.items()}
FirstValues(current) == [i \in DOMAIN current |-> <<current[i][1], current[i][2][1]>>]

\* a variant in which the values of params overwrite those of the URL
MergeParamsExplicitWins(params, current) == DictUpdate(FirstValues(current), params)

\* _params_actual.update({...}) where _params_actual is self.params itself
MergeParams(params, current) == DictUpdate(params, FirstValues(current))

\* auth=None, the default of BaseRequest.__init__ (falsy, like an empty pair)
NoAuth == <<>>

BasicAuth(auth) == <<"Basic", auth[1], auth[2]>>

\* a variant in which a form body takes precedence over a JSON body
RequestBodyFormFirst(self) ==
    IF self.data # <<>> THEN <<"form", urlencode(self.data)>>
    ELSE IF self.json # <<>> THEN <<"json", self.json>>
    ELSE NoData

\* the data of the request (lines 147-153): json.dumps(self.json) when the
\* JSON body is non-empty, else urlencode(self.data) when the form is
RequestBody(self) ==
    IF self.json # <<>> THEN <<"json", self.json>>
    ELSE IF self.data # <<>> THEN <<"form", urlencode(self.data)>>
    ELSE NoData

\* a variant that tests the number of "?" whether or not params is set
MalformedWithoutParams(params, parts) == Len(parts) > 2

\* if self.params: ... if len(parts) > 2 or len(parts) < 1: raise
Malformed(params, parts) == params # <<>> /\ Len(parts) > 2

\* BaseRequest.prepare: the request it returns (or the error it raises) and
\* the descriptor as the call leaves it
prepare(self) ==
    LET hdr1   == IF self.json # <<>>
                  THEN DictSet(self.headers, "Content-Type", <<"application/json">>)
                  ELSE self.headers
        data   == RequestBody(self)
        parts  == SplitQuestion(self.url)
        bad    == Malformed(self.params, parts)
        params == IF self.params # <<>> /\ Len(parts) = 2
                  THEN MergeParams(self.params, parse_qs(parts[2]))
                  ELSE self.params
        url    == IF self.params # <<>>
                  THEN [path |-> parts[1], q |-> <<urlencode(params)>>]
                  ELSE self.url
        hdr2   == IF self.auth # NoAuth
                  THEN DictSet(hdr1, "Authorization", BasicAuth(self.auth))
                  ELSE hdr1
    IN  IF bad
        THEN [ raised  |-> TRUE,
               error   |-> "malformed URL",
               request |-> None,
               self    |-> [self EXCEPT !.headers = hdr1] ]
        ELSE [ raised  |-> FALSE,
               error   |-> None,
               request |-> MethodRequest(self.method, url, data, hdr2),
               self    |-> [self EXCEPT !.headers = hdr2, !.params = params] ]

\* ApiRequest.__init__: a resource path is joined to API_BASE
ApiRequest(method, url, params, data, json, headers, auth) ==
    BaseRequest(method,
                IF url.path \in AbsolutePaths THEN url
                ELSE [url EXCEPT !.path = API_BASE \o @],
                params, data, json, headers, auth)


\* --------------------------------------------------------------- the server
SuccessStatuses == 200..299

\* urlopen raises HTTPError for every status outside 2xx
HTTPErrorRaised(status) == status \notin SuccessStatuses

Tok(n) == "tok" \o ToString(n)

RTok(n) == "rtok" \o ToString(n)

Absent == "Absent"

NoAnswer == [status |-> 0, body |-> None]

\* answers of the resource API: a status and a decoded JSON body
ApiAnswers ==
    { [status |-> 200, body |-> "u1"], [status |-> 201, body |-> "u2"],
      [status |-> 401, body |-> "err"], [status |-> 403, body |-> "err"],
      [status |-> 500, body |-> "err"] }

\* answers of the token endpoint after n grants: an error status, or a grant
\* of a fresh access token with a fresh refresh token, a null one, or none
TokenAnswers(n) ==
    { [status |-> s, access_token |-> Absent, refresh_token |-> Absent] :
      s \in {400} }
    \cup
    IF n < MaxIssued
    THEN { [status |-> 200, access_token |-> Tok(n + 1), refresh_token |-> r] :
           r \in {Absent, None, RTok(n + 1)} }
    ELSE {}

NoTokenAnswer == [status |-> 0, access_token |-> Absent, refresh_token |-> Absent]

\* one request on the wire and its answer; token is the client's
\* access_token at the moment of the send
Exchange(endpoint, request, answer, token) ==
    [endpoint |-> endpoint, request |-> request, answer |-> answer,
     token |-> token]

\* the exchanges of a call with the token endpoint
TokenSendsOf(net) == SelectSeq(net, LAMBDA e : e.endpoint = "token")

\* ------------------------------------------------------------- SpotifyAPI
SpotifyAPI(client_id, client_secret, access_token, refresh_token, redirect_uri) ==
    [ client_id     |-> client_id,
      client_secret |-> client_secret,
      access_token  |-> access_token,
      refresh_token |-> refresh_token,
      redirect_uri  |-> redirect_uri,
      user_id       |-> None ]

TokenUrl == [path |-> TOKEN_URL, q |-> <<>>]

\* a variant that reads the key without a default
PayloadGetNoDefault(payload, default) == payload.refresh_token

\* payload.get('refresh_token', self.refresh_token)
PayloadGet(payload, default) ==
    IF payload.refresh_token = Absent THEN default ELSE payload.refresh_token

\* a variant without the test of line 196
NeverMissingRefreshToken(self) == FALSE

\* if self.refresh_token is None
MissingRefreshToken(self) == self.refresh_token = None

\* SpotifyAPI._refresh_access_token, the token endpoint answering ans
_refresh_access_token(self, ans) ==
    IF MissingRefreshToken(self)
    THEN [ raised |-> TRUE, error |-> "missing refresh token",
           self |-> self, net |-> <<>>, grants |-> 0 ]
    ELSE LET req == BaseRequest("POST", TokenUrl, <<>>,
                        << <<"grant_type", "refresh_token">>,
                           <<"refresh_token", self.refresh_token>> >>,
                        <<>>, <<>>,
                        <<self.client_id, self.client_secret>>)
             sent == Exchange("token", prepare(req).request, ans, self.access_token)
         IN  IF HTTPErrorRaised(ans.status)
             THEN [ raised |-> TRUE, error |-> "error refreshing user token",
                    self |-> self, net |-> <<sent>>, grants |-> 0 ]
             ELSE [ raised |-> FALSE, error |-> None,
                    self |-> [self EXCEPT
                                !.access_token = ans.access_token,
                                !.refresh_token = PayloadGet(ans, @)],
                    net |-> <<sent>>, grants |-> 1 ]

Bearer(token) == <<"Bearer", token>>

\* a variant that keeps an Authorization header the descriptor already has
SetBearerIfAbsent(req, token) ==
    IF "Authorization" \in Keys(req.headers) THEN req
    ELSE [req EXCEPT !.headers = Append(@, <<"Authorization", <<"Bearer", token>> >>)]

\* req.headers['Authorization'] = 'Bearer %s' % self.access_token
SetBearer(req, token) ==
    [req EXCEPT !.headers = DictSet(@, "Authorization", Bearer(token))]

\* variants of the test of line 220: 403 in place of 401, and no test at all
ShouldRetryOn403(status) == status = 403

ShouldRetryOnAnyError(status) == TRUE

\* if e.status != 401: raise
ShouldRetry(status) == status = 401

\* a variant of the retry that sends once more when the retry is answered
\* 401 again (the server repeating its answer)
RetryAgain(self, p2, a2) ==
    LET s2 == Exchange("api", p2.request, a2, self.access_token)
    IN  IF ~HTTPErrorRaised(a2.status)
        THEN [ outcome |-> "returned", error |-> None, resp |-> a2,
               net |-> <<s2>>, refreshes |-> 0, req |-> p2.self ]
        ELSE IF a2.status = 401
        THEN [ outcome |-> "Exception", error |-> "error issuing api request",
               resp |-> a2,
               net |-> <<s2, s2>>, refreshes |-> 1, req |-> p2.self ]
        ELSE [ outcome |-> "Exception", error |-> "error issuing api request",
               resp |-> a2,
               net |-> <<s2>>, refreshes |-> 0, req |-> p2.self ]

\* the retry of _api_req (lines 225-230): self holds the new token, p2 is
\* the request prepared again, a2 answers the send
Retry(self, p2, a2) ==
    LET s2 == Exchange("api", p2.request, a2, self.access_token)
    IN  IF ~HTTPErrorRaised(a2.status)
        THEN [ outcome |-> "returned", error |-> None, resp |-> a2,
               net |-> <<s2>>, refreshes |-> 0, req |-> p2.self ]
        ELSE [ outcome |-> "Exception", error |-> "error issuing api request",
               resp |-> a2,
               net |-> <<s2>>, refreshes |-> 0, req |-> p2.self ]

\* a variant that refreshes the token and raises without sending again
ApiReqRefreshedNoRetry(p1, s1, rf, a2) ==
    [ outcome |-> "Exception",
      error |-> IF rf.raised THEN rf.error ELSE "error issuing api request",
      resp |-> NoAnswer,
      net |-> <<s1>> \o rf.net, refreshes |-> 1, grants |-> rf.grants,
      self |-> rf.self, req |-> p1.self ]

\* _api_req once the refresh rf has been tried (lines 223-226): s1 is the
\* first exchange, p1 the first prepare()
ApiReqRefreshed(p1, s1, rf, a2) ==
    IF rf.raised
    THEN [ outcome |-> "Exception", error |-> rf.error, resp |-> NoAnswer,
           net |-> <<s1>> \o rf.net, refreshes |-> 1, grants |-> 0,
           self |-> rf.self, req |-> p1.self ]
    ELSE Only({ [ outcome |-> rt.outcome, error |-> rt.error, resp |-> rt.resp,
                  net |-> <<s1>> \o rf.net \o rt.net,
                  refreshes |-> 1 + rt.refreshes,
                  grants |-> rf.grants, self |-> rf.self, req |-> rt.req ] :
                rt \in { Only({ Retry(rf.self, p2, a2) :
                                p2 \in { prepare(SetBearer(p1.self,
                                                 rf.self.access_token)) } }) } })

\* _api_req once the first request p1 has been prepared (lines 218-223)
ApiReqSent(self, p1, s1, a1, ra, a2) ==
    IF ~HTTPErrorRaised(a1.status)
    THEN [ outcome |-> "returned", error |-> None, resp |-> a1,
           net |-> <<s1>>, refreshes |-> 0, grants |-> 0,
           self |-> self, req |-> p1.self ]
    ELSE IF ~ShouldRetry(a1.status)
    THEN [ outcome |-> "HTTPError", error |-> None, resp |-> a1,
           net |-> <<s1>>, refreshes |-> 0, grants |-> 0,
           self |-> self, req |-> p1.self ]
    ELSE Only({ ApiReqRefreshed(p1, s1, rf, a2) :
                rf \in { _refresh_access_token(self, ra) } })

\* SpotifyAPI._api_req: a1 answers the first send, ra the refresh, a2 the retry
_api_req(self, req, a1, ra, a2) ==
    Only({ IF p1.raised
           THEN [ outcome |-> "Exception", error |-> p1.error, resp |-> NoAnswer,
                  net |-> <<>>, refreshes |-> 0, grants |-> 0,
                  self |-> self, req |-> p1.self ]
           ELSE Only({ ApiReqSent(self, p1, s1, a1, ra, a2) :
                       s1 \in { Exchange("api", p1.request, a1, self.access_token) } }) :
           p1 \in { prepare(SetBearer(req, self.access_token)) } })

\* whether an object has a prepare() method: a BaseRequest has, the urllib
\* request that prepare() returns has not
HasPrepare(obj) == "params" \in DOMAIN obj

\* SpotifyAPI._api_req handed any object: line 216 sets the header on it,
\* line 217 looks up its prepare()
Dispatch(self, obj, a1, ra, a2) ==
    IF HasPrepare(obj)
    THEN _api_req(self, obj, a1, ra, a2)
    ELSE [ outcome |-> "AttributeError",
           error |-> "'MethodRequest' object has no attribute 'prepare'",
           resp |-> NoAnswer, net |-> <<>>, refreshes |-> 0, grants |-> 0,
           self |-> self, req |-> SetBearer(obj, self.access_token) ]

\* SpotifyAPI.req (get, post, put and delete call it with their method): the
\* descriptor is prepared first and the dispatcher is handed the result
SpotifyAPI_req(self, method, url, params, data, json, headers, a1, ra, a2) ==
    Only({ IF p.raised
           THEN [ outcome |-> "Exception", error |-> p.error, resp |-> NoAnswer,
                  net |-> <<>>, refreshes |-> 0, grants |-> 0,
                  self |-> self, req |-> p.self ]
           ELSE Dispatch(self, p.request, a1, ra, a2) :
           p \in { prepare(ApiRequest(method, url, params, data, json,
                                      headers, NoAuth)) } })

\* a variant that tests the client id only
MissingClientId(self) == self.client_id = None

\* if self.client_id is None or self.client_secret is None
MissingCredentials(self) == self.client_id = None \/ self.client_secret = None

\* a variant that keeps the resolved user id
StoreGrantKeepUser(self, ans) ==
    [self EXCEPT !.access_token = ans.access_token,
                 !.refresh_token = ans.refresh_token]

\* the assignments of register_code once the payload holds both tokens
StoreGrant(self, ans) ==
    [self EXCEPT !.access_token = ans.access_token,
                 !.refresh_token = ans.refresh_token,
                 !.user_id = None]

\* SpotifyAPI.register_code, the token endpoint answering ans
register_code(self, code, ans) ==
    IF MissingCredentials(self)
    THEN [ raised |-> TRUE, error |-> "client credentials not provided",
           self |-> self, net |-> <<>>, grants |-> 0 ]
    ELSE IF self.redirect_uri = None
    THEN [ raised |-> TRUE, error |-> "missing redirect URI",
           self |-> self, net |-> <<>>, grants |-> 0 ]
    ELSE LET req == BaseRequest("POST", TokenUrl, <<>>,
                        << <<"grant_type", "authorization_code">>,
                           <<"code", code>>,
                           <<"redirect_uri", self.redirect_uri>> >>,
                        <<>>, <<>>,
                        <<self.client_id, self.client_secret>>)
             sent == Exchange("token", prepare(req).request, ans, self.access_token)
         IN  IF HTTPErrorRaised(ans.status)
             THEN [ raised |-> TRUE,
                    error |-> "error generating user access token",
                    self |-> self, net |-> <<sent>>, grants |-> 0 ]
             ELSE IF ans.refresh_token = Absent
             THEN \* payload['refresh_token'] raises KeyError after
                  \* access_token has been assigned
                  [ raised |-> TRUE, error |-> "KeyError",
                    self |-> [self EXCEPT !.access_token = ans.access_token],
                    net |-> <<sent>>, grants |-> 1 ]
             ELSE [ raised |-> FALSE, error |-> None,
                    self |-> StoreGrant(self, ans),
                    net |-> <<sent>>, grants |-> 1 ]

\* ' '.join(scopes) under quote_plus: scope names hold only unreserved
\* characters, so the encoded value is the names joined by "+"
RECURSIVE JoinQuoted(_)
JoinQuoted(scopes) ==
    IF scopes = <<>> THEN ""
    ELSE IF Len(scopes) = 1 THEN scopes[1]
    ELSE scopes[1] \o "+" \o JoinQuoted(Tail(scopes))

\* a variant that tests the first scope only
InvalidFirstScope(xs) == xs # <<>> /\ xs[1] \notin VALID_SCOPES

\* for s in scopes: if s not in VALID_SCOPES
InvalidScope(xs) == \E i \in DOMAIN xs : xs[i] \notin VALID_SCOPES

\* SpotifyAPI.oauth2_url; scopes is None or a list
oauth2_url(self, scopes) ==
    LET xs == IF scopes = None THEN <<>> ELSE scopes
    IN  IF self.redirect_uri = None
        THEN [raised |-> TRUE, error |-> "missing redirect URI", url |-> None]
        ELSE IF self.client_id = None
        THEN [raised |-> TRUE, error |-> "missing client ID", url |-> None]
        ELSE IF InvalidScope(xs)
        THEN [raised |-> TRUE, error |-> "invalid scope", url |-> None]
        ELSE [ raised |-> FALSE, error |-> None,
               url |-> [ path |-> OAUTH2_URL,
                         q |-> << << <<"client_id", QuotePlus(self.client_id)>>,
                                     <<"response_type", "code">>,
                                     <<"redirect_uri", QuotePlus(self.redirect_uri)>>,
                                     <<"scope", JoinQuoted(xs)>> >> >> ] ]

\* what the server answers during one dispatcher call, after n grants: the
\* answers the call never asks for are NoAnswer
Scripts(n) ==
    { <<a1, NoTokenAnswer, NoAnswer>> : a1 \in {a \in ApiAnswers : a.status # 401} }
    \cup
    { <<a1, ra, NoAnswer>> :
        a1 \in {a \in ApiAnswers : a.status = 401},
        ra \in {t \in TokenAnswers(n) : HTTPErrorRaised(t.status)} }
    \cup
    { <<a1, ra, a2>> :
        a1 \in {a \in ApiAnswers : a.status = 401},
        ra \in {t \in TokenAnswers(n) : ~HTTPErrorRaised(t.status)},
        a2 \in ApiAnswers }

NoScript == <<NoAnswer, NoTokenAnswer, NoAnswer>>

MeRequest == ApiRequest("GET", [path |-> "me", q |-> <<>>],
                        <<>>, <<>>, <<>>, <<>>, NoAuth)

\* SpotifyAPI.playlists_add proper (lines 601-607): self has a user id, sc2
\* answers the request of the method
PlaylistsAddCall(self, user_id, name, sc2) ==
    _api_req(self,
             ApiRequest("POST",
                        [path |-> "users/"
                                  \o (IF user_id = None THEN self.user_id ELSE user_id)
                                  \o "/playlists",
                         q |-> <<>>],
                        <<>>, <<>>, << <<"name", name>> >>, <<>>, NoAuth),
             sc2[1], sc2[2], sc2[3])

\* user_required once the lookup of the current user has been tried
UserLookedUp(lookup, user_id, name, sc2) ==
    IF lookup.outcome # "returned"
    THEN [ outcome |-> lookup.outcome, error |-> lookup.error,
           resp |-> lookup.resp, net |-> lookup.net,
           refreshes |-> lookup.refreshes, grants |-> lookup.grants,
           self |-> lookup.self, lookups |-> 1 ]
    ELSE Only({ [ outcome |-> call.outcome, error |-> call.error,
                  resp |-> call.resp, net |-> lookup.net \o call.net,
                  refreshes |-> lookup.refreshes + call.refreshes,
                  grants |-> lookup.grants + call.grants,
                  self |-> call.self, lookups |-> 1 ] :
                call \in { PlaylistsAddCall(
                             [lookup.self EXCEPT !.user_id = lookup.resp.body],
                             user_id, name, sc2) } })

\* a variant that looks the current user up on every call
UserIdMissingAlways(self) == TRUE

\* if self.user_id is None
UserIdMissing(self) == self.user_id = None

\* kwargs_required('name') and user_required around SpotifyAPI.playlists_add:
\* sc1 answers the lookup of the current user, sc2 the call of the method
playlists_add(self, user_id, name, sc1, sc2) ==
    IF name = ""
    THEN [ outcome |-> "Exception", error |-> "missing required parameter",
           resp |-> NoAnswer, net |-> <<>>, refreshes |-> 0, grants |-> 0,
           self |-> self, lookups |-> 0 ]
    ELSE IF UserIdMissing(self)
    THEN Only({ UserLookedUp(lookup, user_id, name, sc2) :
                lookup \in { _api_req(self, MeRequest, sc1[1], sc1[2], sc1[3]) } })
    ELSE Only({ [ outcome |-> call.outcome, error |-> call.error,
                  resp |-> call.resp, net |-> call.net,
                  refreshes |-> call.refreshes, grants |-> call.grants,
                  self |-> call.self, lookups |-> 0 ] :
                call \in { PlaylistsAddCall(self, user_id, name, sc2) } })

\* ---------------------------------------------------- paging and batching
\* bounds: the sends one pull of a generator may make
MaxFetches == 2

\* the value None of a variable that holds a URL
NoUrl == [path |-> "", q |-> <<>>]

\* the member 'next' of a paging object: absent, null or a URL
NextAbsent == [kind |-> "absent", url |-> NoUrl]

NextNull == [kind |-> "null", url |-> NoUrl]

NextUrl(u) == [kind |-> "url", url |-> u]

\* a decoded JSON body: the members items and next, at the top level
\* (oname None) or under the key oname
Body(oname, items, next) == [oname |-> oname, items |-> items, next |-> next]

NoBody == Body(None, <<>>, NextAbsent)

NoPageAnswer == [status |-> 0, body |-> NoBody]

\* the key under which the resource API wraps the paging object of a path
OnameOf(path) ==
    IF path = API_BASE \o "me/following" THEN "artists" ELSE None

\* the offset a request asks for: the value of the key offset of its query
\* string, 0 when there is none
RequestedOffset(url) ==
    IF url.q # <<>> /\ "offset" \in Keys(url.q[1])
    THEN Unquote(DictGet(url.q[1], "offset"))
    ELSE "0"

\* the answer of the resource API to a GET of a collection: the page at the
\* requested offset of the chain pages, its next URL on the path requested
PageAnswer(pages, request) ==
    LET at == { i \in DOMAIN pages : pages[i].offset = RequestedOffset(request.url) }
    IN  IF at = {}
        THEN [status |-> 404, body |-> NoBody]
        ELSE LET page == pages[CHOOSE i \in at : TRUE]
             IN  [ status |-> 200,
                   body |-> Body(OnameOf(request.url.path), page.items,
                                 IF page.next.kind = "url"
                                 THEN NextUrl([path |-> request.url.path,
                                               q |-> page.next.url.q])
                                 ELSE page.next) ]

\* what happens to one dispatcher call of a generator: answered at once,
\* answered 401 with the refresh granted and the retry answered, answered
\* 401 with the refresh refused, answered 403
FetchModes == {"ok", "expired", "refused", "forbidden"}

\* the answers of the server during a dispatcher call in mode mode, after n
\* grants: a1 answers the first send, a2 the retry
FetchScript(mode, n, a1, a2) ==
    IF mode = "ok" THEN <<a1, NoTokenAnswer, NoPageAnswer>>
    ELSE IF mode = "expired"
    THEN << [status |-> 401, body |-> NoBody],
            [status |-> 200, access_token |-> Tok(n + 1),
             refresh_token |-> RTok(n + 1)],
            a2 >>
    ELSE IF mode = "refused"
    THEN << [status |-> 401, body |-> NoBody],
            [status |-> 400, access_token |-> Absent, refresh_token |-> Absent],
            NoPageAnswer >>
    ELSE << [status |-> 403, body |-> NoBody], NoTokenAnswer, NoPageAnswer >>

\* self._api_req(req) against the server: answer(request) is what the
\* resource API answers to a request
Fetched(self, req, sc) == _api_req(self, req, sc[1], sc[2], sc[3])

\* self._api_req(req) of a GET of a collection served from pages
FetchPage(self, req, mode, n, pages) ==
    Only({ IF p1.raised
           THEN Fetched(self, req, <<NoPageAnswer, NoTokenAnswer, NoPageAnswer>>)
           ELSE Only({ Fetched(self, req,
                               FetchScript(mode, n,
                                           PageAnswer(pages, p1.request),
                                           PageAnswer(pages, p2.request))) :
                       p2 \in { IF prepare(p1.self).raised
                                THEN p1 ELSE prepare(p1.self) } }) :
           p1 \in { prepare(req) } })

\* a generator object: pc is "created" until the first pull, "suspended"
\* at a yield, "done" after the body returned, "raised" after it raised
NoGen ==
    [ kind |-> "none", pc |-> "done", error |-> None,
      req |-> BaseRequest("GET", NoUrl, <<>>, <<>>, <<>>, <<>>, NoAuth),
      req0 |-> BaseRequest("GET", NoUrl, <<>>, <<>>, <<>>, <<>>, NoAuth),
      oname |-> None, limit |-> None, next_url |-> NoUrl,
      xs |-> <<>>, iname |-> None, ptype |-> None, chunk |-> 0,
      buffer |-> <<>>, yielded |-> <<>>, calls |-> 0, net |-> <<>> ]

\* a variant that forgets the items that follow the one it yields
YieldFirstOnly(g) ==
    [g EXCEPT !.pc = "suspended",
              !.yielded = Append(@, Head(g.buffer)),
              !.buffer = <<>>]

\* yield item, for the first item of the buffer
Yield(g) ==
    [g EXCEPT !.pc = "suspended",
              !.yielded = Append(@, Head(g.buffer)),
              !.buffer = Tail(@)]

\* a variant that takes the items for exhausted while one is left
ItemsLeftButOne(g) == Len(g.buffer) > 1

\* for item in ...: whether the loop over the items of the last response
\* has an item left to yield
ItemsLeft(g) == g.buffer # <<>>

\* the generator after a dispatcher call f that did not return
GenRaised(g, f) ==
    [g EXCEPT !.pc = "raised",
              !.error = IF f.outcome = "HTTPError" THEN "HTTPError" ELSE f.error,
              !.req = f.req, !.calls = @ + 1, !.net = @ \o f.net]

\* self._resp_paginator(req, oname, limit): the generator it returns; limit
\* is None or the decimal string urlencode makes of the number
_resp_paginator(req, oname, limit) ==
    [NoGen EXCEPT !.kind = "pages", !.pc = "created", !.req = req,
                  !.req0 = req, !.oname = oname, !.limit = limit]

\* a variant that never sets the parameter
SetLimitNever(req, limit) == req

\* if limit is not None: req.params['limit'] = limit
SetLimit(req, limit) ==
    IF limit # None
    THEN [req EXCEPT !.params = DictSet(@, "limit", limit)]
    ELSE req

\* a variant that ends the sequence at a page without items
ResultsNextUnlessEmpty(body) ==
    IF body.items = <<>> THEN NoUrl ELSE body.next.url

\* results.get('next'): None when the member is absent or null
ResultsNext(body) == body.next.url

\* the loop of _resp_paginator (lines 324-331) from its test: r is the
\* generator, the client and the grants so far, modes[j] the mode of the
\* next dispatcher call
RECURSIVE PagesLoop(_, _, _, _, _)
PagesLoop(r, n, pages, modes, j) ==
    IF r.gen.next_url = NoUrl
    THEN [r EXCEPT !.gen.pc = "done"]
    ELSE IF j > MaxFetches
    THEN [r EXCEPT !.gen.pc = "running"]
    ELSE Only({
           IF f.outcome # "returned"
           THEN [ gen |-> GenRaised(r.gen, f), self |-> f.self,
                  grants |-> r.grants + f.grants, fetches |-> j ]
           ELSE IF f.resp.body.oname # r.gen.oname
           THEN [ gen |-> [GenRaised(r.gen, f) EXCEPT !.error = "KeyError"],
                  self |-> f.self,
                  grants |-> r.grants + f.grants, fetches |-> j ]
           ELSE Only({ IF g1.buffer # <<>>
                       THEN [ gen |-> Yield(g1), self |-> f.self,
                              grants |-> r.grants + f.grants, fetches |-> j ]
                       ELSE PagesLoop([ gen |-> g1, self |-> f.self,
                                        grants |-> r.grants + f.grants,
                                        fetches |-> j ],
                                      n, pages, modes, j + 1) :
                       g1 \in { [r.gen EXCEPT
                                   !.req = f.req, !.calls = @ + 1,
                                   !.net = @ \o f.net,
                                   !.buffer = f.resp.body.items,
                                   !.next_url = ResultsNext(f.resp.body)] } }) :
           f \in { FetchPage(r.self,
                             [r.gen.req EXCEPT !.url = r.gen.next_url],
                             modes[j], n + r.grants, pages) } })

\* next(g) for a generator of _resp_paginator: the body runs to its next
\* yield, to its end or to an exception
PagesPull(g, self, n, pages, modes) ==
    IF g.pc = "created"
    THEN PagesLoop([ gen |-> [g EXCEPT
                                !.req = SetLimit(@, g.limit),
                                !.next_url = g.req.url],
                     self |-> self, grants |-> 0, fetches |-> 0 ],
                   n, pages, modes, 1)
    ELSE IF g.pc = "suspended" /\ ItemsLeft(g)
    THEN [gen |-> Yield(g), self |-> self, grants |-> 0, fetches |-> 0]
    ELSE IF g.pc = "suspended"
    THEN PagesLoop([gen |-> g, self |-> self, grants |-> 0, fetches |-> 0],
                   n, pages, modes, 1)
    ELSE [gen |-> g, self |-> self, grants |-> 0, fetches |-> 0]

\* the answer of the resource API to GET artists/{id}/top-tracks
TopTracksAnswer == [status |-> 200, body |-> Body("tracks", <<"t1", "t2">>, NextAbsent)]

\* kwargs[_cntr] = kwargs.get(_cntr, 'from_token')
WithCountry(kwargs) ==
    IF "country" \in Keys(kwargs) THEN kwargs
    ELSE DictSet(kwargs, "country", "from_token")

\* SpotifyAPI.artist_top_tracks: the dispatcher call is made by the call of
\* the method, which returns the list under 'tracks' (kind "list": not a
\* generator, its items are there before the first one is asked for)
artist_top_tracks(self, artist_id, kwargs, mode, n) ==
    Only({ [ gen |-> IF f.outcome # "returned"
                     THEN [GenRaised(NoGen, f) EXCEPT !.kind = "list"]
                     ELSE IF f.resp.body.oname # "tracks"
                     THEN [GenRaised(NoGen, f) EXCEPT !.kind = "list",
                                                      !.error = "KeyError"]
                     ELSE [NoGen EXCEPT !.kind = "list", !.pc = "created",
                                        !.req = f.req, !.calls = 1,
                                        !.net = f.net,
                                        !.buffer = f.resp.body.items],
             self |-> f.self, grants |-> f.grants ] :
           f \in { Fetched(self,
                           ApiRequest("GET",
                                      [path |-> "artists/" \o artist_id \o "/top-tracks",
                                       q |-> <<>>],
                                      WithCountry(kwargs), <<>>, <<>>, <<>>, NoAuth),
                           FetchScript(mode, n, TopTracksAnswer, TopTracksAnswer)) } })

\* range(start, stop, step)
RECURSIVE Range(_, _, _)
Range(start, stop, step) ==
    IF start >= stop THEN <<>>
    ELSE <<start>> \o Range(start + step, stop, step)

\* xs[a:b], for 0 <= a <= b
Slice(xs, a, b) == SubSeq(xs, a + 1, IF b < Len(xs) THEN b ELSE Len(xs))

\* a variant that leaves out a last chunk shorter than n
chunkedFullOnly(xs, n) ==
    LET starts == Range(0, Len(xs) - n + 1, n)
    IN  [k \in DOMAIN starts |-> Slice(xs, starts[k], starts[k] + n)]

\* chunked(xs, n): for i in range(0, len(xs), n): yield xs[i:i+n]
chunked(xs, n) ==
    LET starts == Range(0, Len(xs), n)
    IN  [k \in DOMAIN starts |-> Slice(xs, starts[k], starts[k] + n)]

\* ParamType
QUERY == "QUERY"

JSON == "JSON"

\* a variant that appends the chunk to the ids already in the parameter
SetChunkAppending(req, iname, chunk, ptype) ==
    IF ptype = QUERY
    THEN [req EXCEPT !.params =
            DictSet(@, iname,
                    IF iname \in Keys(@)
                    THEN DictGet(@, iname) \o "," \o JoinWith(chunk, ",")
                    ELSE JoinWith(chunk, ","))]
    ELSE [req EXCEPT !.json =
            DictSet(@, iname,
                    IF iname \in Keys(@) THEN DictGet(@, iname) \o chunk
                    ELSE chunk)]

\* req.params[iname] = ','.join(chunk), or req.json[iname] = chunk
SetChunk(req, iname, chunk, ptype) ==
    IF ptype = QUERY
    THEN [req EXCEPT !.params = DictSet(@, iname, JoinWith(chunk, ","))]
    ELSE IF ptype = JSON
    THEN [req EXCEPT !.json = DictSet(@, iname, chunk)]
    ELSE req

\* the identifiers a request carries in the parameter iname, as the server
\* reads them: the query value split at its (encoded) commas, or the list of
\* the JSON body
SentIds(request, iname, ptype) ==
    IF ptype = QUERY
    THEN IF request.url.q # <<>> /\ iname \in Keys(request.url.q[1])
              /\ DictGet(request.url.q[1], iname) \in QuotedStrings
         THEN IdsOf[DictGet(request.url.q[1], iname)]
         ELSE <<>>
    ELSE IF request.data[1] = "json" /\ iname \in Keys(request.data[2])
    THEN DictGet(request.data[2], iname)
    ELSE <<>>

\* the result the resource API returns for one identifier
Result(id) == "r:" \o id

Reverse(xs) == [i \in DOMAIN xs |-> xs[Len(xs) + 1 - i]]

\* the success status of the resource API for a method and path
SuccessStatus(method, path) ==
    IF method = "GET" THEN 200
    ELSE IF path = API_BASE \o "me/following" THEN 204
    ELSE IF method \in {"PUT", "POST"} THEN 201
    ELSE 200

\* what happens to one dispatcher call of a batch: the modes of FetchModes,
\* the results returned in another order than the identifiers, or another
\* 2xx status than the success status of the endpoint
BatchModes == FetchModes \cup {"reversed", "accepted"}

\* the answer of the resource API to a request that carries identifiers
BatchAnswer(request, iname, ptype, mode) ==
    Only({ [ status |-> IF mode = "accepted" THEN 202
                        ELSE SuccessStatus(request.method, request.url.path),
             body |-> Body(IF request.url.path = API_BASE \o "albums"
                           THEN "albums" ELSE None,
                           IF mode = "reversed"
                           THEN Reverse([i \in DOMAIN ids |-> Result(ids[i])])
                           ELSE [i \in DOMAIN ids |-> Result(ids[i])],
                           NextAbsent) ] :
           ids \in { SentIds(request, iname, ptype) } })

\* self._api_req(req) of a request that carries identifiers
FetchBatch(self, req, iname, ptype, mode, n) ==
    Only({ IF p1.raised
           THEN Fetched(self, req, <<NoPageAnswer, NoTokenAnswer, NoPageAnswer>>)
           ELSE Only({ Fetched(self, req,
                               FetchScript(IF mode \in FetchModes THEN mode ELSE "ok",
                                           n,
                                           BatchAnswer(p1.request, iname, ptype, mode),
                                           BatchAnswer(p2.request, iname, ptype, mode))) :
                       p2 \in { IF prepare(p1.self).raised
                                THEN p1 ELSE prepare(p1.self) } }) :
           p1 \in { prepare(req) } })

\* self._req_paginator(req, xs, iname, oname, limit, ptype): the generator
\* it returns; chunk counts the chunks taken from chunked(xs, limit)
_req_paginator(req, xs, iname, oname, limit, ptype) ==
    [NoGen EXCEPT !.kind = "batch", !.pc = "created", !.req = req,
                  !.req0 = req, !.xs = xs, !.iname = iname, !.oname = oname,
                  !.limit = limit, !.ptype = ptype]

\* the loop of _req_paginator (lines 337-347) from its head: modes[k] is
\* the mode of the dispatcher call of the k-th chunk
RECURSIVE BatchLoop(_, _, _, _)
BatchLoop(r, n, modes, j) ==
    IF r.gen.chunk >= Len(chunked(r.gen.xs, r.gen.limit))
    THEN [r EXCEPT !.gen.pc = "done"]
    ELSE IF j > MaxFetches
    THEN [r EXCEPT !.gen.pc = "running"]
    ELSE Only({
           IF f.outcome # "returned"
           THEN [ gen |-> [GenRaised(r.gen, f) EXCEPT !.chunk = @ + 1],
                  self |-> f.self,
                  grants |-> r.grants + f.grants, fetches |-> j ]
           ELSE IF r.gen.oname = None
           THEN [ gen |-> [r.gen EXCEPT
                             !.pc = "suspended", !.chunk = @ + 1,
                             !.req = f.req, !.calls = @ + 1,
                             !.net = @ \o f.net,
                             !.yielded = Append(@, f.resp)],
                  self |-> f.self,
                  grants |-> r.grants + f.grants, fetches |-> j ]
           ELSE IF f.resp.body.oname # r.gen.oname
           THEN [ gen |-> [GenRaised(r.gen, f) EXCEPT
                             !.error = "KeyError", !.chunk = @ + 1],
                  self |-> f.self,
                  grants |-> r.grants + f.grants, fetches |-> j ]
           ELSE Only({ IF g1.buffer # <<>>
                       THEN [ gen |-> Yield(g1), self |-> f.self,
                              grants |-> r.grants + f.grants, fetches |-> j ]
                       ELSE BatchLoop([ gen |-> g1, self |-> f.self,
                                        grants |-> r.grants + f.grants,
                                        fetches |-> j ],
                                      n, modes, j + 1) :
                       g1 \in { [r.gen EXCEPT
                                   !.chunk = @ + 1,
                                   !.req = f.req, !.calls = @ + 1,
                                   !.net = @ \o f.net,
                                   !.buffer = f.resp.body.items] } }) :
           f \in { FetchBatch(r.self,
                              SetChunk(r.gen.req, r.gen.iname,
                                       chunked(r.gen.xs, r.gen.limit)[r.gen.chunk + 1],
                                       r.gen.ptype),
                              r.gen.iname, r.gen.ptype,
                              modes[r.gen.chunk + 1], n + r.grants) } })

\* next(g) for a generator of _req_paginator
BatchPull(g, self, n, modes) ==
    IF g.pc = "suspended" /\ ItemsLeft(g)
    THEN [gen |-> Yield(g), self |-> self, grants |-> 0, fetches |-> 0]
    ELSE IF g.pc \in {"created", "suspended"}
    THEN BatchLoop([gen |-> g, self |-> self, grants |-> 0, fetches |-> 0],
                   n, modes, 1)
    ELSE [gen |-> g, self |-> self, grants |-> 0, fetches |-> 0]

\* a variant without the status test
UnexpectedStatusNever(expected, resp) == FALSE

\* a variant of the status test that accepts every 2xx status
UnexpectedStatusNon2xx(expected, resp) == resp.status \notin SuccessStatuses

\* _expect_status(expected, resp): if resp.status != expected: raise
UnexpectedStatus(expected, resp) == resp.status # expected

\* for resp in self._req_paginator(...): _expect_status(expected, resp),
\* then return True: r is the generator, the client and the grants so far
RECURSIVE ExpectEach(_, _, _, _)
ExpectEach(r, n, modes, expected) ==
    Only({ IF q.gen.pc = "done"
           THEN [ outcome |-> "returned", error |-> None, value |-> "True",
                  gen |-> q.gen, self |-> q.self, grants |-> r.grants + q.grants ]
           ELSE IF q.gen.pc # "suspended"
           THEN [ outcome |-> IF q.gen.error = "HTTPError"
                              THEN "HTTPError" ELSE "Exception",
                  error |-> q.gen.error, value |-> None,
                  gen |-> q.gen, self |-> q.self, grants |-> r.grants + q.grants ]
           ELSE IF UnexpectedStatus(expected, q.gen.yielded[Len(q.gen.yielded)])
           THEN [ outcome |-> "Exception", error |-> "invalid status code",
                  value |-> None,
                  gen |-> q.gen, self |-> q.self, grants |-> r.grants + q.grants ]
           ELSE ExpectEach([ gen |-> q.gen, self |-> q.self,
                             grants |-> r.grants + q.grants ],
                           n, modes, expected) :
           q \in { BatchPull(r.gen, r.self, n + r.grants, modes) } })

\* SpotifyAPI.saved_albums_add(album_ids)
saved_albums_add(self, album_ids, n, modes) ==
    ExpectEach([ gen |-> _req_paginator(
                           ApiRequest("PUT", [path |-> "me/albums", q |-> <<>>],
                                      <<>>, <<>>, <<>>, <<>>, NoAuth),
                           album_ids, "ids", None, 50, QUERY),
                 self |-> self, grants |-> 0 ],
               n, modes, 201)

\* SpotifyAPI.saved_albums_remove(album_ids)
saved_albums_remove(self, album_ids, n, modes) ==
    ExpectEach([ gen |-> _req_paginator(
                           ApiRequest("DELETE", [path |-> "me/albums", q |-> <<>>],
                                      <<>>, <<>>, <<>>, <<>>, NoAuth),
                           album_ids, "ids", None, 50, QUERY),
                 self |-> self, grants |-> 0 ],
               n, modes, 200)

\* SpotifyAPI._follow_unfollow_type(method, _type, type_ids)
_follow_unfollow_type(self, method, type, type_ids, n, modes) ==
    ExpectEach([ gen |-> _req_paginator(
                           ApiRequest(method, [path |-> "me/following", q |-> <<>>],
                                      << <<"type", type>> >>, <<>>, <<>>, <<>>,
                                      NoAuth),
                           type_ids, "ids", None, 50, QUERY),
                 self |-> self, grants |-> 0 ],
               n, modes, 204)

\* SpotifyAPI.playlist_tracks_add(playlist_id, track_uris, **kwargs)
playlist_tracks_add(self, playlist_id, track_uris, kwargs, n, modes) ==
    ExpectEach([ gen |-> _req_paginator(
                           ApiRequest("POST",
                                      [path |-> "playlists/" \o playlist_id \o "/tracks",
                                       q |-> <<>>],
                                      <<>>, <<>>, kwargs, <<>>, NoAuth),
                           track_uris, "uris", None, 100, JSON),
                 self |-> self, grants |-> 0 ],
               n, modes, 201)

\* ------------------------------------------------------------------ inputs
ClientId == "id"

ClientSecret == "secret"

RedirectUri == "https://app/cb"

\* clients as their constructor can build them
InitialClients ==
    { SpotifyAPI(ClientId, ClientSecret, at, rt, RedirectUri) :
        at \in {None, Tok(0)}, rt \in {None, RTok(0)} }
    \cup
    { SpotifyAPI(cfg[1], cfg[2], Tok(0), RTok(0), cfg[3]) :
        cfg \in { <<None, ClientSecret, RedirectUri>>,
                  <<ClientId, None, RedirectUri>>,
                  <<ClientId, ClientSecret, None>> } }

AlbumsUrl == [path |-> "me/albums", q |-> <<>>]

\* descriptors handed to the dispatcher: a plain GET; a PUT with a JSON body,
\* query parameters to merge and a header left by an earlier use; a
\* descriptor with a basic-auth pair; a URL with two "?"
PlainDescriptor == ApiRequest("GET", AlbumsUrl, <<>>, <<>>, <<>>, <<>>, NoAuth)

FullDescriptor ==
    ApiRequest("PUT", [AlbumsUrl EXCEPT !.q = << << <<"a", "1">>, <<"b", "3">> >> >>],
               << <<"a", "2">> >>, <<>>, << <<"ids", "x">> >>,
               << <<"Authorization", Bearer("stale")>> >>, NoAuth)

AuthDescriptor ==
    ApiRequest("GET", AlbumsUrl, <<>>, <<>>, <<>>, <<>>, <<ClientId, ClientSecret>>)

MalformedDescriptor ==
    ApiRequest("GET", [AlbumsUrl EXCEPT !.q = << <<>>, <<>> >>],
               << <<"a", "2">> >>, <<>>, <<>>, <<>>, NoAuth)

\* the scripts in which every resource answer is 200 or 401 and a grant
\* carries a fresh refresh token
ShortScripts(n) ==
    { sc \in Scripts(n) :
        /\ sc[1].status \in {200, 401}
        /\ sc[3].status \in {0, 200, 401}
        /\ sc[2].status = 200 => sc[2].refresh_token = RTok(n + 1) }

\* the descriptor and the server's answers of one dispatcher call
ApiReqInputs(n) ==
    { <<FullDescriptor, sc>> : sc \in Scripts(n) }
    \cup { <<d, sc>> : d \in {PlainDescriptor, AuthDescriptor}, sc \in ShortScripts(n) }
    \cup { <<MalformedDescriptor, NoScript>> }

\* arguments of playlists_add and the answers of the server during the call,
\* for a client self after n grants; the method's own request is answered
\* 200 or 403
PlaylistsAddInputs(self, n) ==
    LET CallScripts(m) == {sc \in Scripts(m) : sc[1].status \in {200, 403}}
        LookupScripts == ShortScripts(n) \cup
                         {sc \in Scripts(n) : sc[1].status \in {201, 403}}
    IN  { <<None, "", NoScript, NoScript>> }
        \cup
        IF self.user_id # None
        THEN { <<uid, "mix", NoScript, sc2>> :
                 uid \in {None, "u2"}, sc2 \in CallScripts(n) }
        ELSE UNION { UNION { IF lookup.outcome = "returned"
                             THEN { <<uid, "mix", sc1, sc2>> :
                                      uid \in {None} \cup
                                              (IF sc1[1].status = 200 THEN {"u2"} ELSE {}),
                                      sc2 \in CallScripts(n + lookup.grants) }
                             ELSE { <<None, "mix", sc1, NoScript>> } :
                             lookup \in { _api_req(self, MeRequest,
                                                   sc1[1], sc1[2], sc1[3]) } } :
                     sc1 \in LookupScripts }

ScopeInputs ==
    { <<>>, <<"streaming">>, <<"streaming", "user-top-read">>,
      <<"bogus-scope">>, <<"streaming", "bogus-scope">> }

NoPrepared ==
    [called |-> FALSE, raised |-> FALSE, error |-> None, request |-> None,
     before |-> None]

\* ------------------------------------------------------- client operations
Record(op, args, pre, outcome, error, resp, value, net, refreshes, lookups) ==
    [ op |-> op, args |-> args, pre |-> pre, retired0 |-> retired,
      outcome |-> outcome, error |-> error, resp |-> resp, value |-> value,
      net |-> net, refreshes |-> refreshes, lookups |-> lookups ]

\* the access tokens replaced so far, once self has become self1
Retire(self, self1) ==
    IF self1.access_token # self.access_token
    THEN retired \cup {self.access_token}
    ELSE retired

Init ==
    /\ client \in InitialClients
    /\ issued = 0
    /\ retired = {}
    /\ last = [ op |-> "none", args |-> None, pre |-> None, retired0 |-> {},
                outcome |-> None, error |-> None, resp |-> NoAnswer,
                value |-> None, net |-> <<>>, refreshes |-> 0, lookups |-> 0 ]
    /\ desc = PlainDescriptor
    /\ prepared = NoPrepared
    /\ gen = NoGen
    /\ other = NoGen
    /\ server = <<>>

ApiReqCall ==
    \E in \in ApiReqInputs(issued) :
        \E d \in {in[1]}, sc \in {in[2]} :
        \E r \in { _api_req(client, d, sc[1], sc[2], sc[3]) } :
            /\ client' = r.self
            /\ issued' = issued + r.grants
            /\ retired' = Retire(client, r.self)
            /\ last' = Record("_api_req", [req |-> d, sc |-> sc], client,
                              r.outcome, r.error, r.resp, r.req, r.net,
                              r.refreshes, 0)
            /\ UNCHANGED <<desc, prepared, gen, other, server>>

Refresh ==
    \E ans \in TokenAnswers(issued) :
        \E r \in { _refresh_access_token(client, ans) } :
            /\ client' = r.self
            /\ issued' = issued + r.grants
            /\ retired' = Retire(client, r.self)
            /\ last' = Record("refresh", ans, client,
                              IF r.raised THEN "Exception" ELSE "returned",
                              r.error, NoAnswer, None, r.net, 1, 0)
            /\ UNCHANGED <<desc, prepared, gen, other, server>>

RegisterCode ==
    \E code \in {"c1"}, ans \in TokenAnswers(issued) :
        \E r \in { register_code(client, code, ans) } :
            /\ client' = r.self
            /\ issued' = issued + r.grants
            /\ retired' = Retire(client, r.self)
            /\ last' = Record("register_code", ans, client,
                              IF r.raised THEN "Exception" ELSE "returned",
                              r.error, NoAnswer, None, r.net, 0, 0)
            /\ UNCHANGED <<desc, prepared, gen, other, server>>

Oauth2Url ==
    \E list \in ScopeInputs, omitted \in BOOLEAN :
        \E r \in { oauth2_url(client, IF omitted THEN None ELSE list) } :
            /\ omitted => list = <<>>
            /\ last' = Record("oauth2_url", IF omitted THEN None ELSE list, client,
                              IF r.raised THEN "Exception" ELSE "returned",
                              r.error, NoAnswer, r.url, <<>>, 0, 0)
            /\ UNCHANGED <<client, issued, retired, desc, prepared, gen, other, server>>

PlaylistsAdd ==
    \E in \in PlaylistsAddInputs(client, issued) :
        \E r \in { playlists_add(client, in[1], in[2], in[3], in[4]) } :
            /\ client' = r.self
            /\ issued' = issued + r.grants
            /\ retired' = retired \cup
                    ({ r.net[i].token : i \in DOMAIN r.net }
                     \ {r.self.access_token})
            /\ last' = Record("playlists_add", <<in[1], in[2]>>, client,
                              r.outcome, r.error, r.resp, None, r.net,
                              r.refreshes, r.lookups)
            /\ UNCHANGED <<desc, prepared, gen, other, server>>

\* arguments of SpotifyAPI.req: method, url, params, json
ReqInputs ==
    { <<"GET", AlbumsUrl, <<>>, <<>> >>,
      <<"GET", [AlbumsUrl EXCEPT !.q = << << <<"b", "3">> >> >>],
        << <<"a", "2">> >>, <<>> >>,
      <<"PUT", AlbumsUrl, <<>>, << <<"ids", "x">> >> >>,
      <<"GET", [AlbumsUrl EXCEPT !.q = << <<>>, <<>> >>], << <<"a", "2">> >>, <<>> >> }

\* api.req(method, url, params=..., json=...), the server ready to answer sc
ReqCall ==
    \E in \in ReqInputs, sc \in ShortScripts(issued) :
        \E r \in { SpotifyAPI_req(client, in[1], in[2], in[3], <<>>, in[4], <<>>,
                                  sc[1], sc[2], sc[3]) } :
            /\ client' = r.self
            /\ issued' = issued + r.grants
            /\ retired' = Retire(client, r.self)
            /\ last' = Record("req", [in |-> in, sc |-> sc], client,
                              r.outcome, r.error, r.resp, r.req, r.net,
                              r.refreshes, 0)
            /\ UNCHANGED <<desc, prepared, gen, other, server>>

Next ==
    \/ ApiReqCall
    \/ Refresh
    \/ RegisterCode
    \/ Oauth2Url
    \/ PlaylistsAdd
    \/ ReqCall

Spec == Init /\ [][Next]_vars

\* ------------------------------------------------- prepare() on its own
\* raw query strings: up to MaxPairs pairs over two keys, with blank,
\* plain and percent-encoded values
MaxPairs == 2

RawPairs == { <<k, v>> : k \in {"a", "b"}, v \in {"", "1", "x%20y"} }

RECURSIVE SeqsUpTo(_, _)
SeqsUpTo(S, n) ==
    IF n = 0 THEN { <<>> }
    ELSE LET shorter == SeqsUpTo(S, n - 1)
         IN  shorter \cup { Append(q, x) : q \in shorter, x \in S }

QueryStrings == SeqsUpTo(RawPairs, MaxPairs)

\* URLs with no "?", with one, and with two
PrepareUrls ==
    { [path |-> API_BASE \o "me/albums", q |-> qq] :
        qq \in { <<>> } \cup { <<qs>> : qs \in QueryStrings }
               \cup { <<qs, <<>> >> : qs \in SeqsUpTo(RawPairs, 1) } }

\* params dicts: up to two of the keys "a" and "c"
ParamDicts ==
    { d \in SeqsUpTo({ <<k, v>> : k \in {"a", "c"}, v \in {"2", "x y"} }, 2) :
        Cardinality(Keys(d)) = Len(d) }

PrepareDescriptors ==
    { BaseRequest("GET", u, ps, data, json, <<>>, auth) :
        u \in PrepareUrls, ps \in ParamDicts,
        data \in { <<>>, << <<"f", "x y">> >> },
        json \in { <<>>, << <<"j", "1">> >> },
        auth \in { NoAuth, <<ClientId, ClientSecret>> } }

InitPrepare ==
    /\ client = SpotifyAPI(ClientId, ClientSecret, None, None, RedirectUri)
    /\ issued = 0
    /\ retired = {}
    /\ last = [ op |-> "none", args |-> None, pre |-> None, retired0 |-> {},
                outcome |-> None, error |-> None, resp |-> NoAnswer,
                value |-> None, net |-> <<>>, refreshes |-> 0, lookups |-> 0 ]
    /\ desc \in PrepareDescriptors
    /\ prepared = NoPrepared
    /\ gen = NoGen
    /\ other = NoGen
    /\ server = <<>>

\* desc.prepare()
Prepare ==
    \E r \in { prepare(desc) } :
        /\ prepared' = [ called |-> TRUE, raised |-> r.raised,
                         error |-> r.error, request |-> r.request,
                         before |-> desc ]
        /\ desc' = r.self
        /\ UNCHANGED <<client, issued, retired, last, gen, other, server>>

\* the caller changes the body of the descriptor between two prepare()
\* calls: desc.json = {}; desc.data = {'f': 'x y'}
FormInsteadOfJson ==
    /\ desc.json # <<>>
    /\ desc' = [desc EXCEPT !.json = <<>>, !.data = << <<"f", "x y">> >>]
    /\ prepared' = NoPrepared
    /\ UNCHANGED <<client, issued, retired, last, gen, other, server>>

NextPrepare ==
    \/ Prepare
    \/ FormInsteadOfJson

SpecPrepare == InitPrepare /\ [][NextPrepare]_vars

\* ------------------------------------------- generators of the endpoints
\* a page of a chain: the offset it is served at, its items and the query
\* string of its next URL
Page(offset, items, next) == [offset |-> offset, items |-> items, next |-> next]

NextQuery(q) == NextUrl([path |-> "", q |-> <<q>>])

\* chains of pages: two pages; three pages, the second without items; three
\* pages whose next URLs carry a percent-encoded value and drop a key; one
\* page without items
Chains ==
    { << Page("0", <<"t1", "t2">>,
              NextQuery(<< <<"offset", "2">>, <<"limit", "2">> >>)),
         Page("2", <<"t3">>, NextNull) >>,
      << Page("0", <<"t1">>,
              NextQuery(<< <<"limit", "1">>, <<"offset", "1">> >>)),
         Page("1", <<>>,
              NextQuery(<< <<"offset", "2">>, <<"limit", "1">> >>)),
         Page("2", <<"t2">>, NextAbsent) >>,
      << Page("0", <<"t1">>,
              NextQuery(<< <<"offset", "1">>, <<"b", "x%20y">> >>)),
         Page("1", <<"t2">>,
              NextQuery(<< <<"offset", "2">> >>)),
         Page("2", <<"t3">>, NextNull) >>,
      << Page("0", <<>>, NextNull) >> }

\* keyword arguments of album_tracks
TrackKwargs ==
    { <<>>, << <<"market", "x y">> >>,
      << <<"offset", "0">>, <<"limit", "1">> >> }

InitSeq ==
    /\ client = SpotifyAPI(ClientId, ClientSecret, Tok(0), RTok(0), RedirectUri)
    /\ issued = 0
    /\ retired = {}
    /\ last = [ op |-> "none", args |-> None, pre |-> None, retired0 |-> {},
                outcome |-> None, error |-> None, resp |-> NoAnswer,
                value |-> None, net |-> <<>>, refreshes |-> 0, lookups |-> 0 ]
    /\ desc = PlainDescriptor
    /\ prepared = NoPrepared
    /\ gen = NoGen
    /\ other = NoGen
    /\ server \in Chains

\* a behaviour of SpecSeq either pulls from generators or calls the bulk
\* helpers, which share nothing but the client's tokens
HelpersCalled == last.op = "mutate"

\* a variant that keeps one descriptor for all its invocations: a later
\* invocation finds it as the sequence started before has left it
album_tracksSharedDescriptor(album_id, kwargs) ==
    _resp_paginator(
        IF gen.kind = "pages" THEN gen.req
        ELSE ApiRequest("GET", [path |-> "albums/" \o album_id \o "/tracks", q |-> <<>>],
                        kwargs, <<>>, <<>>, <<>>, NoAuth),
        None, None)

\* SpotifyAPI.album_tracks: a new descriptor for every invocation
album_tracks(album_id, kwargs) ==
    _resp_paginator(
        ApiRequest("GET", [path |-> "albums/" \o album_id \o "/tracks", q |-> <<>>],
                   kwargs, <<>>, <<>>, <<>>, NoAuth),
        None, None)

\* SpotifyAPI.albums
albums(album_ids, kwargs) ==
    _req_paginator(
        ApiRequest("GET", [path |-> "albums", q |-> <<>>],
                   kwargs, <<>>, <<>>, <<>>, NoAuth),
        album_ids, "ids", "albums", 20, QUERY)

\* api.album_tracks(album_id, **kwargs)
AlbumTracks ==
    \E kwargs \in TrackKwargs :
        /\ ~HelpersCalled
        /\ gen' = album_tracks("a1", kwargs)
        /\ UNCHANGED <<client, issued, retired, last, desc, prepared, other, server>>

\* api.artists_followed()
ArtistsFollowed ==
    /\ ~HelpersCalled
    /\ gen' = _resp_paginator(
                 ApiRequest("GET", [path |-> "me/following", q |-> <<>>],
                            << <<"type", "artist">> >>, <<>>, <<>>, <<>>, NoAuth),
                 "artists", "50")
    /\ UNCHANGED <<client, issued, retired, last, desc, prepared, other, server>>

\* the modes of the dispatcher calls of one pull, after n grants: the token
\* endpoint grants no more than MaxIssued tokens
PullModes(n) ==
    { modes \in [1..MaxFetches -> FetchModes] :
        n + Cardinality({ j \in DOMAIN modes : modes[j] = "expired" }) <= MaxIssued }

\* next(gen) on a generator of _resp_paginator
PullPage ==
    /\ gen.kind = "pages"
    /\ \E modes \in PullModes(issued) :
         \E r \in { PagesPull(gen, client, issued, server, modes) } :
            /\ \A j \in DOMAIN modes : j > r.fetches => modes[j] = "ok"
            /\ gen' = r.gen
            /\ client' = r.self
            /\ issued' = issued + r.grants
            /\ retired' = retired \cup
                    ({ r.gen.net[i].token : i \in DOMAIN r.gen.net }
                     \ {r.self.access_token})
            /\ UNCHANGED <<last, desc, prepared, other, server>>

\* api.albums(album_ids)
Albums ==
    \E album_ids \in { Ids(0), Ids(1), Ids(20), Ids(21) } :
        /\ ~HelpersCalled
        /\ gen' = albums(album_ids, <<>>)
        /\ UNCHANGED <<client, issued, retired, last, desc, prepared, other, server>>

\* next(gen) on a generator of _req_paginator: the dispatcher call it makes,
\* if any, goes as mode says
PullBatch ==
    /\ gen.kind = "batch"
    /\ \E mode \in BatchModes :
         \E r \in { BatchPull(gen, client, issued,
                              [k \in 1..Len(chunked(gen.xs, gen.limit)) |-> mode]) } :
            /\ mode = "expired" => issued < MaxIssued
            /\ r.fetches = 0 => mode = "ok"
            /\ gen' = r.gen
            /\ client' = r.self
            /\ issued' = issued + r.grants
            /\ retired' = retired \cup
                    ({ r.gen.net[i].token : i \in DOMAIN r.gen.net }
                     \ {r.self.access_token})
            /\ UNCHANGED <<last, desc, prepared, other, server>>

\* the bulk mutation helpers the model calls
Helpers ==
    {"saved_albums_add", "saved_albums_remove", "follow_artists",
     "playlist_tracks_add"}

\* the lists of identifiers handed to a helper: none, one, one more than
\* the chunk size of the helper
HelperIds(helper) ==
    IF helper = "playlist_tracks_add" THEN { Ids(1), Ids(101) }
    ELSE { Ids(0), Ids(1), Ids(51) }

HelperLimit(helper) == IF helper = "playlist_tracks_add" THEN 100 ELSE 50

\* the modes of the dispatcher calls of the chunks of a helper call
HelperModes(helper, xs, n) ==
    { modes \in [1..Len(chunked(xs, HelperLimit(helper))) ->
                   {"ok", "accepted", "expired", "refused", "forbidden"}] :
        n + Cardinality({ k \in DOMAIN modes : modes[k] = "expired" }) <= MaxIssued }

HelperCall(helper, self, xs, n, modes) ==
    IF helper = "saved_albums_add" THEN saved_albums_add(self, xs, n, modes)
    ELSE IF helper = "saved_albums_remove"
    THEN saved_albums_remove(self, xs, n, modes)
    ELSE IF helper = "follow_artists"
    THEN _follow_unfollow_type(self, "PUT", "artist", xs, n, modes)
    ELSE playlist_tracks_add(self, "p1", xs, <<>>, n, modes)

\* a call of a bulk mutation helper: api.saved_albums_add(xs), ...
Mutate ==
    /\ gen.kind = "none"
    /\ \E helper \in Helpers :
      \E xs \in HelperIds(helper) :
        \E modes \in HelperModes(helper, xs, issued) :
          \E r \in { HelperCall(helper, client, xs, issued, modes) } :
            /\ \A k \in DOMAIN modes : k > r.gen.chunk => modes[k] = "ok"
            /\ client' = r.self
            /\ issued' = issued + r.grants
            /\ retired' = retired \cup
                    ({ r.gen.net[i].token : i \in DOMAIN r.gen.net }
                     \ {r.self.access_token})
            /\ last' = Record("mutate",
                              [helper |-> helper, xs |-> xs, modes |-> modes,
                               gen |-> r.gen],
                              client, r.outcome, r.error, NoAnswer, r.value,
                              r.gen.net, Len(TokenSendsOf(r.gen.net)), 0)
            /\ UNCHANGED <<desc, prepared, gen, other, server>>

\* api.artist_top_tracks(artist_id)
ArtistTopTracks ==
    \E mode \in {"ok", "expired", "forbidden"} :
        \E r \in { artist_top_tracks(client, "ar1", <<>>, mode, issued) } :
            /\ ~HelpersCalled
            /\ mode = "expired" => issued < MaxIssued
            /\ gen' = r.gen
            /\ client' = r.self
            /\ issued' = issued + r.grants
            /\ retired' = retired \cup
                    ({ r.gen.net[i].token : i \in DOMAIN r.gen.net }
                     \ {r.self.access_token})
            /\ UNCHANGED <<last, desc, prepared, other, server>>

\* next() on the iterator of the list artist_top_tracks returned
PullList ==
    /\ gen.kind = "list"
    /\ gen.pc \in {"created", "suspended"}
    /\ gen' = IF gen.buffer # <<>> THEN Yield(gen) ELSE [gen EXCEPT !.pc = "done"]
    /\ UNCHANGED <<client, issued, retired, last, desc, prepared, other, server>>

NextSeq ==
    \/ ArtistTopTracks
    \/ PullList
    \/ AlbumTracks
    \/ ArtistsFollowed
    \/ PullPage
    \/ Albums
    \/ PullBatch
    \/ Mutate

SpecSeq == InitSeq /\ [][NextSeq]_vars

\* ------------------------------------------- two generators of one client
\* next(g) for either kind of generator, every dispatcher call it makes
\* going as mode says
PullOf(g, mode) ==
    IF g.kind = "pages"
    THEN PagesPull(g, client, issued, server, [j \in 1..MaxFetches |-> mode])
    ELSE BatchPull(g, client, issued,
                   [k \in 1..Len(chunked(g.xs, g.limit)) |-> mode])

\* the dispatcher calls of the pulls are answered at once or find the
\* access token expired
TwoModes == {"ok", "expired"}

\* first = api.album_tracks(album_id, **kwargs)
FirstAlbumTracks ==
    \E kwargs \in TrackKwargs :
        /\ gen.kind = "none"
        /\ gen' = album_tracks("a1", kwargs)
        /\ UNCHANGED <<client, issued, retired, last, desc, prepared, other, server>>

\* next(first)
PullFirst ==
    /\ gen.kind = "pages"
    /\ \E mode \in TwoModes :
         \E r \in { PullOf(gen, mode) } :
            /\ mode = "expired" => issued + r.fetches <= MaxIssued
            /\ r.fetches = 0 => mode = "ok"
            /\ gen' = r.gen
            /\ client' = r.self
            /\ issued' = issued + r.grants
            /\ retired' = retired \cup
                    ({ r.gen.net[i].token : i \in DOMAIN r.gen.net }
                     \ {r.self.access_token})
            /\ UNCHANGED <<last, desc, prepared, other, server>>

\* other = api.album_tracks(album_id, **kwargs), a second invocation
OtherAlbumTracks ==
    \E kwargs \in TrackKwargs :
        /\ other.kind = "none"
        /\ other' = album_tracks("a1", kwargs)
        /\ UNCHANGED <<client, issued, retired, last, desc, prepared, gen, server>>

\* other = api.albums(album_ids)
OtherAlbums ==
    /\ other.kind = "none"
    /\ other' = albums(Ids(21), <<>>)
    /\ UNCHANGED <<client, issued, retired, last, desc, prepared, gen, server>>

\* next(other)
PullOther ==
    /\ other.kind \in {"pages", "batch"}
    /\ \E mode \in TwoModes :
         \E r \in { PullOf(other, mode) } :
            /\ mode = "expired" => issued + r.fetches <= MaxIssued
            /\ r.fetches = 0 => mode = "ok"
            /\ other' = r.gen
            /\ client' = r.self
            /\ issued' = issued + r.grants
            /\ retired' = retired \cup
                    ({ r.gen.net[i].token : i \in DOMAIN r.gen.net }
                     \ {r.self.access_token})
            /\ UNCHANGED <<last, desc, prepared, gen, server>>

NextTwo ==
    \/ FirstAlbumTracks
    \/ PullFirst
    \/ OtherAlbumTracks
    \/ OtherAlbums
    \/ PullOther

SpecTwo == InitSeq /\ [][NextTwo]_vars

\* -------------------------------------------------------------- properties
ApiSends(net) == SelectSeq(net, LAMBDA e : e.endpoint = "api")

TokenSends(net) == SelectSeq(net, LAMBDA e : e.endpoint = "token")

\* the value of the Authorization header of a request on the wire
Authorization(request) == DictGet(request.headers, "Authorization")

\* the form field refresh_token of a request sent to the token endpoint
PostedRefreshToken(request) == DictGet(request.data[2], "refresh_token")

DispatcherCall == last.op = "_api_req"

\* the last dispatcher call met a 401 and the token endpoint granted the refresh
RefreshGranted ==
    /\ DispatcherCall
    /\ ApiSends(last.net) # <<>>
    /\ ApiSends(last.net)[1].answer.status = 401
    /\ last.pre.refresh_token # None
    /\ ~HTTPErrorRaised(last.args.sc[2].status)

\* C1: a dispatcher call whose first send is answered 401, whose refresh is
\* granted and whose retry is answered with a success status returns the
\* answer of the retry, after exactly one refresh and exactly two resource sends
C1_Retry401ThenSuccess ==
    (RefreshGranted /\ ~HTTPErrorRaised(last.args.sc[3].status)) =>
        /\ last.outcome = "returned"
        /\ last.resp = last.args.sc[3]
        /\ last.refreshes = 1
        /\ Len(TokenSends(last.net)) = 1
        /\ Len(ApiSends(last.net)) = 2
        /\ ApiSends(last.net)[2].answer = last.args.sc[3]

C1_Witness ==
    /\ RefreshGranted
    /\ last.outcome = "returned"
    /\ Len(ApiSends(last.net)) = 2
    /\ last.resp.status = 200

\* C2: one dispatcher call makes at most two resource sends and at most one
\* refresh; when the retry is answered with an error status (401 again or any
\* other) the call ends in an error after exactly two sends and one refresh
C2_AtMostOneRetry ==
    DispatcherCall =>
        /\ Len(ApiSends(last.net)) <= 2
        /\ Len(TokenSends(last.net)) <= 1
        /\ last.refreshes <= 1
        /\ (RefreshGranted /\ HTTPErrorRaised(last.args.sc[3].status)) =>
               /\ last.outcome = "Exception"
               /\ last.error = "error issuing api request"
               /\ Len(ApiSends(last.net)) = 2
               /\ last.refreshes = 1

C2_Witness ==
    /\ RefreshGranted
    /\ Len(ApiSends(last.net)) = 2
    /\ ApiSends(last.net)[2].answer.status = 401
    /\ last.outcome = "Exception"

\* the first send of the last dispatcher call was answered, and not with 401
FirstAnswerNot401 ==
    /\ DispatcherCall
    /\ ApiSends(last.net) # <<>>
    /\ last.args.sc[1].status # 401

\* C3 as stated: a first answer other than 401 is returned to the caller
\* whatever its status, without a refresh and without a second send
C3_ReturnedUnconditionally ==
    FirstAnswerNot401 =>
        /\ last.outcome = "returned"
        /\ last.resp = last.args.sc[1]
        /\ last.refreshes = 0
        /\ Len(last.net) = 1

\* C3 amended: a first answer other than 401 reaches the caller without a
\* refresh and without a second send: it is returned when its status is 2xx
\* and raised as the transport's HTTPError, which carries it, otherwise
C3_ReturnedOrRaisedAsIs ==
    FirstAnswerNot401 =>
        /\ last.resp = last.args.sc[1]
        /\ last.outcome =
             (IF last.args.sc[1].status \in SuccessStatuses
              THEN "returned" ELSE "HTTPError")
        /\ last.refreshes = 0
        /\ Len(last.net) = 1
        /\ client = last.pre

C3_Witness ==
    /\ FirstAnswerNot401
    /\ last.args.sc[1].status = 403
    /\ last.outcome = "HTTPError"

\* C4: a resource request sent for a descriptor without a basic-auth pair
\* carries Authorization: Bearer t, t being the client's access_token at the
\* moment of the send; the retry after a granted refresh carries the new
\* token, and no send carries a token the client has replaced before it
C4_BearerIsCurrentToken ==
    (last.op \in {"_api_req", "playlists_add"} /\
     (DispatcherCall => last.args.req.auth = NoAuth)) =>
        LET sends == ApiSends(last.net)
        IN  /\ \A i \in DOMAIN sends :
                  /\ "Authorization" \in Keys(sends[i].request.headers)
                  /\ Authorization(sends[i].request) = <<"Bearer", sends[i].token>>
                  /\ \A t \in last.retired0 :
                         Authorization(sends[i].request) # <<"Bearer", t>>
            /\ sends # <<>> =>
                  /\ sends[1].token = last.pre.access_token
                  /\ \A t \in retired :
                         Authorization(sends[Len(sends)].request) # <<"Bearer", t>>
            /\ RefreshGranted =>
                  /\ Len(sends) = 2
                  /\ sends[2].token = client.access_token
                  /\ sends[1].token \in retired

C4_Witness ==
    /\ RefreshGranted
    /\ last.args.req.auth = NoAuth
    /\ last.retired0 # {}
    /\ Len(ApiSends(last.net)) = 2
    /\ Authorization(ApiSends(last.net)[2].request) = <<"Bearer", client.access_token>>
    /\ "Authorization" \in Keys(last.args.req.headers)

\* the token state a granted refresh leaves, ans being the grant
GrantStored(ans) ==
    /\ client.access_token = ans.access_token
    /\ client.refresh_token =
         (IF ans.refresh_token = Absent THEN last.pre.refresh_token
          ELSE ans.refresh_token)
    /\ client.user_id = last.pre.user_id

\* C5: a granted refresh() replaces access_token by the granted value and
\* replaces refresh_token only if the grant carries one; it posts the refresh
\* token the client held, so after a grant without one the next refresh posts
\* the same refresh token again
C5_RefreshStoresGrant ==
    /\ (last.op = "refresh" /\ last.pre.refresh_token # None
          /\ ~HTTPErrorRaised(last.args.status)) =>
           (last.outcome = "returned" /\ GrantStored(last.args))
    /\ RefreshGranted => GrantStored(last.args.sc[2])
    /\ (last.op \in {"refresh", "_api_req"} /\ TokenSends(last.net) # <<>>) =>
           PostedRefreshToken(TokenSends(last.net)[1].request) = last.pre.refresh_token

C5_Witness ==
    /\ last.op = "refresh"
    /\ last.outcome = "returned"
    /\ last.args.refresh_token = Absent
    /\ client.refresh_token = last.pre.refresh_token
    /\ client.access_token # last.pre.access_token

RefreshErrors == {"missing refresh token", "error refreshing user token"}

\* C6: refresh() with a null refresh_token fails without a network call, and
\* refresh() answered with a non-success status fails; both leave the tokens
\* unchanged, and inside the dispatcher's 401 path the error reaches the
\* caller without a retry send
C6_RefreshFailure ==
    /\ (last.op = "refresh" /\ last.pre.refresh_token = None) =>
           /\ last.outcome = "Exception"
           /\ last.error = "missing refresh token"
           /\ last.net = <<>>
           /\ client = last.pre
    /\ (last.op = "refresh" /\ last.pre.refresh_token # None
          /\ HTTPErrorRaised(last.args.status)) =>
           /\ last.outcome = "Exception"
           /\ last.error = "error refreshing user token"
           /\ client = last.pre
    /\ (DispatcherCall /\ ApiSends(last.net) # <<>>
          /\ last.args.sc[1].status = 401 /\ ~RefreshGranted) =>
           /\ last.outcome = "Exception"
           /\ last.error \in RefreshErrors
           /\ Len(ApiSends(last.net)) = 1
           /\ last.pre.refresh_token = None => TokenSends(last.net) = <<>>
           /\ client = last.pre

C6_Witness ==
    /\ DispatcherCall
    /\ last.pre.refresh_token = None
    /\ last.error = "missing refresh token"
    /\ Len(last.net) = 1

\* C7: a successful register_code stores the granted access_token and
\* refresh_token and sets user_id to null; one answered with a non-success
\* status fails and leaves access_token, refresh_token and user_id unchanged
C7_RegisterCode ==
    last.op = "register_code" =>
        /\ last.outcome = "returned" =>
               /\ client.access_token = last.args.access_token
               /\ client.refresh_token = last.args.refresh_token
               /\ client.user_id = None
        /\ (~MissingCredentials(last.pre) /\ last.pre.redirect_uri # None) =>
               IF HTTPErrorRaised(last.args.status)
               THEN /\ last.outcome = "Exception"
                    /\ last.error = "error generating user access token"
                    /\ client = last.pre
               ELSE last.args.refresh_token # Absent => last.outcome = "returned"

C7_Witness ==
    /\ last.op = "register_code"
    /\ last.outcome = "returned"
    /\ last.pre.user_id # None
    /\ client.user_id = None

\* C8: register_code called while client_id, client_secret or redirect_uri is
\* not set fails before any network call and leaves the token state unchanged
C8_RegisterCodeNeedsCredentials ==
    (last.op = "register_code" /\
     None \in {last.pre.client_id, last.pre.client_secret, last.pre.redirect_uri}) =>
        /\ last.outcome = "Exception"
        /\ last.error \in {"client credentials not provided", "missing redirect URI"}
        /\ last.net = <<>>
        /\ client = last.pre

C8_Witness ==
    /\ last.op = "register_code"
    /\ last.pre.client_secret = None
    /\ last.outcome = "Exception"
    /\ last.net = <<>>

\* the scopes oauth2_url was called with
RequestedScopes == IF last.args = None THEN <<>> ELSE last.args

SomeScopeInvalid == \E i \in DOMAIN RequestedScopes : RequestedScopes[i] \notin VALID_SCOPES

\* the authorize URL of the client for the requested scopes
IsAuthorizeUrl(url) ==
    /\ url.path = OAUTH2_URL
    /\ Len(url.q) = 1
    /\ [i \in DOMAIN url.q[1] |-> url.q[1][i][1]] =
           <<"client_id", "response_type", "redirect_uri", "scope">>
    /\ DictGet(url.q[1], "response_type") = "code"
    /\ DictGet(url.q[1], "client_id") = last.pre.client_id

\* C9 as stated: oauth2_url fails when a requested scope is not in the
\* allow-list and otherwise returns the authorize URL, with no network call
\* and no change of the client
C9_FailsOnlyOnInvalidScope ==
    last.op = "oauth2_url" =>
        /\ IF SomeScopeInvalid THEN last.outcome = "Exception"
           ELSE last.outcome = "returned" /\ IsAuthorizeUrl(last.value)
        /\ last.net = <<>>
        /\ client = last.pre

\* C9 amended: oauth2_url fails when a requested scope is not in the
\* allow-list or when redirect_uri or client_id is not set, and otherwise
\* returns the authorize URL; in every outcome there is no network call and
\* no change of the client
C9_FailsOnInvalidScopeOrConfiguration ==
    last.op = "oauth2_url" =>
        /\ IF SomeScopeInvalid \/ None \in {last.pre.redirect_uri, last.pre.client_id}
           THEN last.outcome = "Exception"
           ELSE last.outcome = "returned" /\ IsAuthorizeUrl(last.value)
        /\ (last.pre.redirect_uri # None /\ last.pre.client_id # None
              /\ SomeScopeInvalid) => last.error = "invalid scope"
        /\ last.net = <<>>
        /\ client = last.pre

C9_Witness ==
    /\ last.op = "oauth2_url"
    /\ Len(RequestedScopes) = 2
    /\ last.error = "invalid scope"

\* the query string of the URL prepare() was called on, and the one it sent
UrlQuery == prepared.before.url.q[1]

SentQuery == prepared.request.url.q[1]

\* prepare() merged query_params into a URL that has a query string
Merged ==
    /\ prepared.called
    /\ ~prepared.raised
    /\ prepared.before.params # <<>>
    /\ Len(prepared.before.url.q) = 1

\* the pairs of a raw query string whose value is not blank
NonBlank(q) == SelectSeq(q, LAMBDA pr : pr[2] # "")

\* C10 as stated: for a key both in query_params and in the URL's query
\* string the value sent is the one of query_params; keys of only one of the
\* two are kept
C10_ExplicitWins ==
    Merged =>
        /\ \A k \in Keys(prepared.before.params) :
               /\ k \in Keys(SentQuery)
               /\ DictGet(SentQuery, k) = QuotePlus(DictGet(prepared.before.params, k))
        /\ \A k \in Keys(UrlQuery) : k \in Keys(SentQuery)

\* C10 amended: for a key both in query_params and in the URL's query string
\* with a non-blank value the value sent is the URL's (its first non-blank
\* one); keys only in query_params are kept; keys only in the URL are kept
\* when they have a non-blank value and dropped otherwise
C10_UrlWins ==
    Merged =>
        /\ \A k \in Keys(NonBlank(UrlQuery)) :
               /\ k \in Keys(SentQuery)
               /\ DictGet(SentQuery, k) =
                      QuotePlus(Unquote(DictGet(NonBlank(UrlQuery), k)))
        /\ \A k \in Keys(prepared.before.params) \ Keys(NonBlank(UrlQuery)) :
               /\ k \in Keys(SentQuery)
               /\ DictGet(SentQuery, k) = QuotePlus(DictGet(prepared.before.params, k))
        /\ Keys(SentQuery) =
               Keys(prepared.before.params) \cup Keys(NonBlank(UrlQuery))
        /\ Cardinality(Keys(SentQuery)) = Len(SentQuery)

C10_Witness ==
    /\ Merged
    /\ Keys(prepared.before.params) = {"a", "c"}
    /\ Keys(NonBlank(UrlQuery)) = {"a", "b"}
    /\ DictGet(prepared.before.params, "a") = "2"
    /\ DictGet(SentQuery, "a") = "1"

\* C11: prepare() changes no field of the descriptor: url, params, headers,
\* JSON body, form body and auth are after the call what they were before it
C11_PrepareChangesNothing ==
    prepared.called => desc = prepared.before

\* C12: when both a JSON body and a form body are set, the request body is
\* the JSON body alone and the request carries Content-Type
\* application/json; when only a form body is set, the request body is the
\* URL-encoded form
C12_JsonBodyWins ==
    (prepared.called /\ ~prepared.raised) =>
        /\ (prepared.before.json # <<>> /\ prepared.before.data # <<>>) =>
               /\ prepared.request.data = <<"json", prepared.before.json>>
               /\ Capitalize("Content-Type") \in Keys(prepared.request.headers)
               /\ DictGet(prepared.request.headers, Capitalize("Content-Type"))
                      = <<"application/json">>
        /\ (prepared.before.json = <<>> /\ prepared.before.data # <<>>) =>
               /\ prepared.request.data[1] = "form"
               /\ prepared.request.data[2] =
                      [i \in DOMAIN prepared.before.data |->
                          <<prepared.before.data[i][1],
                            QuotePlus(prepared.before.data[i][2])>>]

C12_Witness ==
    /\ prepared.called
    /\ ~prepared.raised
    /\ prepared.before.json # <<>>
    /\ prepared.before.data = << <<"f", "x y">> >>
    /\ prepared.request.data[1] = "json"

\* prepare() was called on a URL with more than one "?"
ManyQuestionMarks ==
    /\ prepared.called
    /\ Len(prepared.before.url.q) > 1

\* C13 as stated: prepare() fails with the malformed-URL error and returns
\* no request for every URL with more than one "?", whether or not the
\* descriptor has query parameters
C13_MalformedAlways ==
    ManyQuestionMarks =>
        /\ prepared.raised
        /\ prepared.error = "malformed URL"
        /\ prepared.request = None

\* C13 amended: on a URL with more than one "?" prepare() fails with the
\* malformed-URL error and returns no request when the descriptor has query
\* parameters; when it has none, prepare() returns a request to that URL,
\* unchanged
C13_MalformedWhenParams ==
    ManyQuestionMarks =>
        IF prepared.before.params # <<>>
        THEN /\ prepared.raised
             /\ prepared.error = "malformed URL"
             /\ prepared.request = None
        ELSE /\ ~prepared.raised
             /\ prepared.request.url = prepared.before.url

C13_Witness ==
    /\ ManyQuestionMarks
    /\ prepared.before.params # <<>>
    /\ prepared.raised

\* what the dispatcher does with the descriptor of the last call of req,
\* for the same client and the same answers of the server
DispatcherOnSameRequest ==
    _api_req(last.pre,
             ApiRequest(last.args.in[1], last.args.in[2], last.args.in[3],
                        <<>>, last.args.in[4], <<>>, NoAuth),
             last.args.sc[1], last.args.sc[2], last.args.sc[3])

\* C20: req (and get, post, put, delete) behaves like the dispatcher on the
\* same request: the same sends with the bearer header, the same refresh
\* and retry, the same outcome and response, the same client state after
C20_ReqLikeDispatcher ==
    last.op = "req" =>
        /\ last.outcome = DispatcherOnSameRequest.outcome
        /\ last.resp = DispatcherOnSameRequest.resp
        /\ last.net = DispatcherOnSameRequest.net
        /\ last.refreshes = DispatcherOnSameRequest.refreshes
        /\ client = DispatcherOnSameRequest.self

IsPrefix(a, b) == Len(a) <= Len(b) /\ SubSeq(b, 1, Len(a)) = a

\* the items of the pages of a chain, in chain order
RECURSIVE AllItems(_)
AllItems(pages) ==
    IF pages = <<>> THEN <<>> ELSE Head(pages).items \o AllItems(Tail(pages))

\* C14: paginate yields the items of the pages p1..pk of the chain in
\* order, none duplicated or dropped: what it has yielded is at every moment
\* a prefix of items(p1)..items(pk), and when the sequence has ended it is
\* all of them, after exactly k dispatcher calls; a page without items and
\* with a next URL does not end the sequence
C14_PaginateYieldsChain ==
    gen.kind = "pages" =>
        /\ IsPrefix(gen.yielded, AllItems(server))
        /\ gen.calls <= Len(server)
        /\ gen.pc = "done" =>
               /\ gen.yielded = AllItems(server)
               /\ gen.calls = Len(server)

C14_Witness ==
    /\ gen.kind = "pages"
    /\ gen.pc = "done"
    /\ Len(server) = 3
    /\ server[2].items = <<>>
    /\ gen.yielded = <<"t1", "t2">>
    /\ gen.calls = 3

\* the resource requests a generator has sent so far, retries included
GenSends == ApiSends(gen.net)

\* the last of the sends before the i-th that was answered with a page, 0
\* when there is none (the i-th send is then a send of the first request)
LastPageBefore(i) ==
    LET answered == { k \in 1..(i - 1) : GenSends[k].answer.status = 200 }
    IN  IF answered = {} THEN 0
        ELSE CHOOSE k \in answered : \A m \in answered : m <= k

\* the URL the server returned in 'next' before the i-th send
NextUrlBefore(i) == GenSends[LastPageBefore(i)].answer.body.next.url

QueryOf(url) == IF url.q = <<>> THEN <<>> ELSE url.q[1]

\* the first request of paginate carries page_size as limit
FirstRequestHasLimit(i) ==
    gen.limit # None =>
        /\ "limit" \in Keys(QueryOf(GenSends[i].request.url))
        /\ DictGet(QueryOf(GenSends[i].request.url), "limit") = QuotePlus(gen.limit)

\* C15 as stated: page_size is sent as limit on the first request, and every
\* later request is sent to exactly the URL the server returned in 'next'
C15_NextUrlVerbatim ==
    gen.kind = "pages" =>
        \A i \in DOMAIN GenSends :
            IF LastPageBefore(i) = 0
            THEN FirstRequestHasLimit(i)
            ELSE GenSends[i].request.url = NextUrlBefore(i)

\* C15 amended: page_size is sent as limit on the first request and a key
\* limit is sent on every later request too; a later request goes to the
\* path of the server's next URL with a query string the client rebuilds, in
\* which every key of the next URL with a non-blank value carries the
\* server's value (possibly encoded otherwise); only a descriptor without any query parameter (no
\* page_size, no caller parameter) sends the next URL as it is
C15_NextUrlRebuilt ==
    gen.kind = "pages" =>
        \A i \in DOMAIN GenSends :
            IF LastPageBefore(i) = 0
            THEN FirstRequestHasLimit(i)
            ELSE /\ GenSends[i].request.url.path = NextUrlBefore(i).path
                 /\ \A k \in Keys(NonBlank(QueryOf(NextUrlBefore(i)))) :
                        /\ k \in Keys(QueryOf(GenSends[i].request.url))
                        /\ Unquote(DictGet(QueryOf(GenSends[i].request.url), k)) =
                               Unquote(DictGet(
                                   NonBlank(QueryOf(NextUrlBefore(i))), k))
                 /\ gen.limit # None =>
                        "limit" \in Keys(QueryOf(GenSends[i].request.url))
                 /\ (gen.limit = None /\ gen.req0.params = <<>>) =>
                        GenSends[i].request.url = NextUrlBefore(i)

C15_Witness ==
    /\ gen.kind = "pages"
    /\ gen.limit = "50"
    /\ Len(GenSends) >= 2
    /\ LastPageBefore(2) = 1
    /\ "limit" \in Keys(QueryOf(NextUrlBefore(2)))
    /\ GenSends[2].request.url # NextUrlBefore(2)

RECURSIVE Concat(_)
Concat(seqs) == IF seqs = <<>> THEN <<>> ELSE Head(seqs) \o Concat(Tail(seqs))

\* the positions, among the resource sends of a generator, of the sends
\* that begin a dispatcher call (the others are retries after a 401)
CallStarts(g) ==
    { i \in DOMAIN ApiSends(g.net) :
        i = 1 \/ ApiSends(g.net)[i - 1].answer.status # 401 }

\* the identifiers carried by the first send of each dispatcher call
SentChunks(g) ==
    [k \in 1..Cardinality(CallStarts(g)) |->
        SentIds(ApiSends(g.net)[CHOOSE i \in CallStarts(g) :
                                  Cardinality({m \in CallStarts(g) : m <= i}) = k].request,
                g.iname, g.ptype)]

\* ceil(len(xs) / limit)
ChunkCount(g) == (Len(g.xs) + g.limit - 1) \div g.limit

\* a batch generator has sent, one dispatcher call per chunk and in order,
\* consecutive chunks of its identifiers of exactly limit elements, the
\* last one possibly shorter, each in the named parameter alone: joined and
\* encoded in the query string, or as a list in the JSON body
Partitions(g) ==
    g.kind = "batch" =>
        /\ Len(SentChunks(g)) = g.calls
        /\ g.calls <= ChunkCount(g)
        /\ IsPrefix(Concat(SentChunks(g)), g.xs)
        /\ \A k \in DOMAIN SentChunks(g) :
               /\ Len(SentChunks(g)[k]) \in 1..g.limit
               /\ k < ChunkCount(g) => Len(SentChunks(g)[k]) = g.limit
        /\ \A i \in DOMAIN ApiSends(g.net) :
               /\ i \notin CallStarts(g) =>
                      SentIds(ApiSends(g.net)[i].request, g.iname, g.ptype)
                          = SentIds(ApiSends(g.net)[i - 1].request, g.iname, g.ptype)
               /\ IF g.ptype = QUERY
                  THEN /\ ApiSends(g.net)[i].request.data = NoData
                       /\ DictGet(ApiSends(g.net)[i].request.url.q[1], g.iname)
                              = JoinWith(SentIds(ApiSends(g.net)[i].request,
                                                 g.iname, g.ptype), "%2C")
                  ELSE /\ ApiSends(g.net)[i].request.url.q = <<>>
                       /\ ApiSends(g.net)[i].request.data[1] = "json"
        /\ g.pc = "done" =>
               /\ g.calls = ChunkCount(g)
               /\ Concat(SentChunks(g)) = g.xs

\* C16: batch sends the identifiers in input order in consecutive chunks of
\* at most chunk_size (only the last may be shorter), every identifier in
\* exactly one chunk, with ceil(len(ids)/chunk_size) dispatcher calls, one
\* per chunk, each carrying the current chunk alone in the named parameter
C16_BatchPartitions ==
    /\ Partitions(gen)
    /\ last.op = "mutate" => Partitions(last.args.gen)

C16_Witness ==
    /\ gen.kind = "batch"
    /\ gen.xs = Ids(21)
    /\ gen.pc = "done"
    /\ gen.calls = 2
    /\ SentChunks(gen)[2] = <<Id(21)>>

\* the responses the dispatcher returned to a generator, in order
Responses(g) ==
    LET returned == SelectSeq(ApiSends(g.net),
                              LAMBDA e : e.answer.status \in SuccessStatuses)
    IN  [k \in DOMAIN returned |-> returned[k].answer]

\* every response carries one result per identifier, in request order
InRequestOrder(g) ==
    \A i \in DOMAIN ApiSends(g.net) :
        ApiSends(g.net)[i].answer.status \in SuccessStatuses =>
            ApiSends(g.net)[i].answer.body.items =
                [m \in DOMAIN SentIds(ApiSends(g.net)[i].request, g.iname, g.ptype) |->
                    Result(SentIds(ApiSends(g.net)[i].request, g.iname, g.ptype)[m])]

\* with items_field a batch generator yields the elements of that field of
\* each response, response by response; without, the responses themselves
YieldsResponses(g) ==
    g.kind = "batch" =>
        IF g.oname # None
        THEN /\ g.yielded \o g.buffer =
                    Concat([k \in DOMAIN Responses(g) |-> Responses(g)[k].body.items])
             /\ (g.pc = "done" /\ InRequestOrder(g)) =>
                    g.yielded = [i \in DOMAIN g.xs |-> Result(g.xs[i])]
        ELSE /\ g.yielded = Responses(g)
             /\ g.pc # "raised" => Len(g.yielded) = g.calls

\* C17: with items_field, batch yields the elements of that field of each
\* chunk's response, chunk by chunk in chunk order, so that with one result
\* per identifier in request order the i-th result yielded belongs to the
\* i-th identifier; without items_field it yields one raw response per chunk
C17_BatchYields ==
    /\ YieldsResponses(gen)
    /\ last.op = "mutate" => YieldsResponses(last.args.gen)

C17_Witness ==
    /\ gen.kind = "batch"
    /\ gen.oname = "albums"
    /\ gen.pc = "done"
    /\ InRequestOrder(gen)
    /\ Len(gen.yielded) = 21
    /\ gen.yielded[21] = Result(Id(21))

\* the status a helper expects of every response
ExpectedStatus(helper) ==
    IF helper = "saved_albums_remove" THEN 200
    ELSE IF helper = "follow_artists" THEN 204
    ELSE 201

\* the chunks of the last helper call whose dispatcher call fails or is
\* answered with another status than the expected one
FailingChunks ==
    { k \in DOMAIN last.args.modes :
        last.args.modes[k] \in {"accepted", "refused", "forbidden"} }

\* C18 as stated: a helper sends every chunk, also after a chunk has failed,
\* and returns a boolean that tells whether every chunk succeeded
C18_AllChunksSent ==
    HelpersCalled =>
        /\ last.args.gen.calls = Len(last.args.modes)
        /\ last.outcome = "returned"
        /\ last.value = (IF FailingChunks = {} THEN "True" ELSE "False")

\* C18 amended: a helper stops at the first failing chunk: it raises, the
\* chunks after it are not sent; it returns True when every chunk succeeded
C18_StopsAtFirstFailure ==
    HelpersCalled =>
        IF FailingChunks = {}
        THEN /\ last.outcome = "returned"
             /\ last.value = "True"
             /\ last.args.gen.calls = Len(last.args.modes)
        ELSE /\ last.outcome \in {"Exception", "HTTPError"}
             /\ last.value = None
             /\ \A k \in FailingChunks : last.args.gen.calls <= k
             /\ last.args.gen.calls \in FailingChunks

C18_Witness ==
    /\ HelpersCalled
    /\ Len(last.args.modes) = 2
    /\ last.args.modes[1] = "forbidden"
    /\ last.outcome = "HTTPError"
    /\ last.args.gen.calls = 1

\* C19: a helper returns True only if the response of every chunk had
\* exactly the status the operation expects; a response with another 2xx
\* status makes the call fail
C19_ExactStatus ==
    HelpersCalled =>
        /\ last.outcome = "returned" =>
               /\ last.value = "True"
               /\ Len(last.args.gen.yielded) = Len(last.args.modes)
               /\ \A k \in DOMAIN last.args.gen.yielded :
                      last.args.gen.yielded[k].status = ExpectedStatus(last.args.helper)
        /\ (\E k \in DOMAIN last.args.gen.yielded :
                last.args.gen.yielded[k].status # ExpectedStatus(last.args.helper)) =>
               /\ last.outcome = "Exception"
               /\ last.error = "invalid status code"
               /\ last.value = None

C19_Witness ==
    /\ HelpersCalled
    /\ last.args.gen.yielded # <<>>
    /\ last.args.gen.yielded[Len(last.args.gen.yielded)].status = 202
    /\ last.outcome = "Exception"

\* the dispatcher calls of the last operation that ask for the current
\* user (GET me); a send that follows a 401 answer to the same request is
\* the retry of the same call
MeCalls ==
    { i \in DOMAIN ApiSends(last.net) :
        /\ ApiSends(last.net)[i].request.url.path = API_BASE \o "me"
        /\ i = 1 \/ ApiSends(last.net)[i - 1].answer.status # 401 }

UserScopedCalled == last.op = "playlists_add" /\ last.args[2] # ""

LookupSucceeded ==
    \E i \in DOMAIN ApiSends(last.net) :
        /\ ApiSends(last.net)[i].request.url.path = API_BASE \o "me"
        /\ ApiSends(last.net)[i].answer.status \in SuccessStatuses

\* C21: a user-scoped operation looks the current user up (GET me) only
\* when user_id is None, and then exactly once; a successful lookup stores
\* the id, a known id is kept and no lookup is issued, until a successful
\* register_code clears it
C21_LookupOnlyWhenUnknown ==
    /\ [](/\ UserScopedCalled =>
              /\ Cardinality(MeCalls) = (IF last.pre.user_id = None THEN 1 ELSE 0)
              /\ last.pre.user_id # None => client.user_id = last.pre.user_id
              /\ LookupSucceeded => client.user_id # None
          /\ (last.op = "register_code" /\ last.outcome = "returned") =>
              client.user_id = None)
    /\ [][(client.user_id # None /\ client'.user_id # client.user_id) =>
             (last'.op = "register_code" /\ last'.outcome = "returned")]_vars

C21_Witness ==
    /\ UserScopedCalled
    /\ last.pre.user_id # None
    /\ last.pre.access_token = Tok(1)
    /\ MeCalls = {}
    /\ last.outcome = "returned"

\* C22: the call of a collection endpoint returns a generator and issues no
\* network request; the first request goes out with the first pull
C22_CallIsLazy ==
    gen.kind # "none" =>
        /\ gen.kind \in {"pages", "batch"}
        /\ gen.pc = "created" => (gen.net = <<>> /\ gen.calls = 0)

\* the pages or chunks of a generator that are fully consumed: those whose
\* response it got and of which no item is left to yield
Consumed(g) == Len(Responses(g)) - (IF g.buffer # <<>> THEN 1 ELSE 0)

CallsFollowConsumption(g) ==
    g.kind \in {"pages", "batch"} => g.calls <= Consumed(g) + 1

\* a step from g to h that makes a dispatcher call is a pull that found no
\* item left to yield, and it yields at most one item
PulledOnDemand(g, h) ==
    (h.kind = g.kind /\ h.calls > g.calls) =>
        /\ g.pc \in {"created", "suspended"}
        /\ g.buffer = <<>>
        /\ Len(h.yielded) <= Len(g.yielded) + 1

CallsInOwnPulls ==
    /\ PulledOnDemand(gen, gen')
    /\ PulledOnDemand(other, other')
    /\ gen'.net # gen.net => (PullFirst /\ other' = other)
    /\ other'.net # other.net => (PullOther /\ gen' = gen)

\* C23: a sequence makes the dispatcher call of the next page or chunk only
\* in a pull that finds every item of the previous ones yielded; its calls
\* never exceed the fully consumed pages or chunks by more than one, and no
\* step other than its own pull makes a call for it
C23_CallsOnlyOnDemand ==
    /\ [](CallsFollowConsumption(gen) /\ CallsFollowConsumption(other))
    /\ [][CallsInOwnPulls]_vars

C23_Witness ==
    /\ gen.kind = "pages"
    /\ gen.calls = 2
    /\ gen.yielded = <<"t1", "t2", "t3">>
    /\ other.kind = "batch"
    /\ other.calls = 1
    /\ Len(other.yielded) = 1
    /\ Len(other.buffer) = 19

\* the offsets the dispatcher calls of the generator have asked for
OffsetOfCall(i) == RequestedOffset(ApiSends(gen.net)[i].request.url)

\* C24: over a chain of k pages that ends with a null or absent 'next',
\* paginate never asks for the same page twice and ends after exactly k
\* dispatcher calls, whatever parameters the caller put on the descriptor
C24_EndsAfterChain ==
    gen.kind = "pages" =>
        /\ \A i, j \in CallStarts(gen) : i # j => OffsetOfCall(i) # OffsetOfCall(j)
        /\ Cardinality(CallStarts(gen)) = gen.calls
        /\ gen.calls <= Len(server)
        /\ gen.pc = "done" => gen.calls = Len(server)
        /\ (gen.pc = "suspended" /\ gen.buffer = <<>> /\ gen.calls = Len(server)) =>
               gen.next_url = NoUrl

C24_Witness ==
    /\ gen.kind = "pages"
    /\ {"offset", "limit"} \subseteq Keys(gen.req0.params)
    /\ Len(server) = 3
    /\ gen.pc = "done"
    /\ gen.calls = 3

\* C25: after the first request, every key of the query string paginate
\* sends comes from the server's latest 'next' URL (or is one of the
\* descriptor's own parameters): a key of an earlier next URL that the
\* latest one no longer has is not sent
C25_NoAccumulation ==
    gen.kind = "pages" =>
        \A i \in DOMAIN GenSends :
            LastPageBefore(i) # 0 =>
                \A k \in Keys(QueryOf(GenSends[i].request.url)) :
                    \/ k \in Keys(QueryOf(NextUrlBefore(i)))
                    \/ k \in Keys(gen.req0.params)
                    \/ k = "limit" /\ gen.limit # None

SentAsJson ==
    /\ Capitalize("Content-Type") \in Keys(prepared.request.headers)
    /\ DictGet(prepared.request.headers, Capitalize("Content-Type"))
           = <<"application/json">>

\* C26: a request prepare() returns has the Content-Type application/json
\* only if the JSON body of the descriptor is non-empty at that call,
\* whatever was prepared from the descriptor before
C26_JsonTypeOnlyWithJsonBody ==
    (prepared.called /\ ~prepared.raised /\ SentAsJson) =>
        prepared.before.json # <<>>

\* C30: register_code is all-or-nothing on the token state, whatever the
\* token endpoint answers: afterwards either both tokens are the returned
\* ones and user_id is None, or tokens and user_id are as before the call
C30_RegisterCodeAllOrNothing ==
    last.op = "register_code" =>
        \/ /\ last.args.status \in SuccessStatuses
           /\ client.access_token = last.args.access_token
           /\ client.refresh_token = last.args.refresh_token
           /\ client.user_id = None
        \/ /\ client.access_token = last.pre.access_token
           /\ client.refresh_token = last.pre.refresh_token
           /\ client.user_id = last.pre.user_id

\* the last operation got a grant from the token endpoint for a refresh
\* (refresh() itself, or the refresh of a dispatcher call answered 401)
Refreshed ==
    /\ last.op \in {"refresh", "_api_req", "playlists_add", "req"}
    /\ \E i \in DOMAIN TokenSends(last.net) :
           TokenSends(last.net)[i].answer.status \in SuccessStatuses

Exchanged == last.op = "register_code" /\ last.outcome = "returned"

TokenFrame ==
    /\ (client'.access_token # client.access_token
        \/ client'.refresh_token # client.refresh_token) =>
           (Refreshed' \/ Exchanged')
    /\ client'.user_id # client.user_id =>
           \/ Exchanged'
           \/ (UserScopedCalled /\ LookupSucceeded)'

\* C27: access_token and refresh_token change only in a successful refresh
\* or a successful register_code; user_id changes only in the lookup of the
\* current user and in a successful register_code
C27_TokensChangeOnlyOnGrant == [][TokenFrame]_vars

\* the keys of the next URLs of the chain served
ServerKeys ==
    UNION { Keys(QueryOf(server[i].next.url)) : i \in DOMAIN server }

\* a generator runs its own sequence: its first request is the one of its
\* own descriptor, its requests carry its own parameters and none of
\* another descriptor, and it yields its own items in order, all of them
\* when it has ended
OwnSequence(g) ==
    /\ g.pc # "raised"
    /\ g.kind = "pages" =>
           /\ IsPrefix(g.yielded, AllItems(server))
           /\ g.pc = "done" =>
                  (g.yielded = AllItems(server) /\ g.calls = Len(server))
           /\ ApiSends(g.net) # <<>> =>
                  ApiSends(g.net)[1].request.url = prepare(g.req0).request.url
           /\ \A i \in DOMAIN ApiSends(g.net) :
                  /\ Keys(g.req0.params) \subseteq
                         Keys(QueryOf(ApiSends(g.net)[i].request.url))
                  /\ Keys(QueryOf(ApiSends(g.net)[i].request.url)) \subseteq
                         Keys(g.req0.params) \cup ServerKeys
    /\ g.kind = "batch" =>
           /\ Partitions(g)
           /\ YieldsResponses(g)
           /\ g.pc = "done" => g.yielded = [i \in DOMAIN g.xs |-> Result(g.xs[i])]

\* C28: every invocation of an endpoint method starts its own sequence at
\* the first page or chunk, and two generators of one client pulled in any
\* order each yield their own complete sequence in order
C28_SequencesIndependent == OwnSequence(gen) /\ OwnSequence(other)

\* both generators have ended, the second having used a token the first
\* one's refresh obtained and the first a token of the second one's refresh
C28_Witness ==
    /\ gen.kind = "pages" /\ gen.pc = "done"
    /\ other.kind = "pages" /\ other.pc = "done"
    /\ gen.req0 # other.req0
    /\ Len(server) = 3
    /\ gen.net[1].token = Tok(0)
    /\ other.net[1].token = Tok(1)
    /\ Len(TokenSends(other.net)) = 1
    /\ gen.net[Len(gen.net)].token = Tok(2)

\* the resource sends of a generator that were answered 401
Expiries(g) ==
    { i \in DOMAIN ApiSends(g.net) : ApiSends(g.net)[i].answer.status = 401 }

\* every send answered 401 cost one refresh and, the refresh granted, one
\* more send of the same request with the new token
ExpiryCost(g) ==
    /\ Len(TokenSends(g.net)) = Cardinality(Expiries(g))
    /\ g.pc # "raised" =>
           Len(ApiSends(g.net)) = g.calls + Cardinality(Expiries(g))
    /\ \A i \in Expiries(g) :
           i + 1 \in DOMAIN ApiSends(g.net) =>
               /\ ApiSends(g.net)[i + 1].request.url = ApiSends(g.net)[i].request.url
               /\ ApiSends(g.net)[i + 1].request.data = ApiSends(g.net)[i].request.data
               /\ ApiSends(g.net)[i + 1].token # ApiSends(g.net)[i].token

\* the next pull of the generator leaves it the same whether its dispatcher
\* calls are answered at once or find the token expired, but for one
\* refresh and one more send per call
SameAsWithoutExpiry(g) ==
    \A plain \in { PullOf(g, "ok") }, late \in { PullOf(g, "expired") } :
        /\ late.gen.pc = plain.gen.pc
        /\ late.gen.yielded = plain.gen.yielded
        /\ late.gen.buffer = plain.gen.buffer
        /\ late.gen.calls = plain.gen.calls
        /\ late.gen.chunk = plain.gen.chunk
        /\ late.gen.next_url = plain.gen.next_url
        /\ late.grants = plain.gen.calls - g.calls
        /\ Len(TokenSends(late.gen.net)) =
               Len(TokenSends(g.net)) + (plain.gen.calls - g.calls)
        /\ Len(ApiSends(late.gen.net)) =
               Len(ApiSends(plain.gen.net)) + (plain.gen.calls - g.calls)

\* C29: a 401 answer to the fetch of a page or chunk, with the retry after
\* the refresh accepted, changes nothing in what the sequence yields: no
\* page or chunk is skipped or yielded twice; it costs exactly one refresh
\* and one more resource send
C29_ExpiryIsTransparent ==
    gen.kind \in {"pages", "batch"} =>
        /\ ExpiryCost(gen)
        /\ gen.pc \in {"created", "suspended"} => SameAsWithoutExpiry(gen)
        /\ (gen.kind = "pages" /\ gen.pc = "done") => gen.yielded = AllItems(server)
        /\ (gen.kind = "batch" /\ gen.pc = "done" /\ InRequestOrder(gen)) =>
               gen.yielded = [i \in DOMAIN gen.xs |-> Result(gen.xs[i])]

\* a sequence of two pages has ended, the token having expired at the
\* fetch of the second page
C29_Witness ==
    /\ gen.kind = "pages"
    /\ gen.pc = "done"
    /\ gen.calls = 2
    /\ Expiries(gen) = {2}
    /\ Len(ApiSends(gen.net)) = 3
    /\ Len(TokenSends(gen.net)) = 1
    /\ gen.yielded = <<"t1", "t2", "t3">>

\* the i-th send of the generator follows a page, and the descriptor the
\* generator was created with has the key k with another value than the
\* server's next URL
CallerDisagrees(i, k) ==
    /\ LastPageBefore(i) # 0
    /\ k \in Keys(QueryOf(NextUrlBefore(i)))
    /\ k \in Keys(gen.req0.params)
    /\ DictGet(gen.req0.params, k) # Unquote(DictGet(QueryOf(NextUrlBefore(i)), k))

====
